---- MODULE Spec2Model ----
(***************************************************************************)
(* Payment reconciliation of the kiosk backend: the order store, the       *)
(* Mercado Pago gateway (terminal intents and payments), the confirmed-    *)
(* payments cache fed by the webhook / IPN receivers, and the revisions of *)
(* the payment status check kept in the repository.                        *)
(*                                                                         *)
(* Money: a gateway payment's transaction_amount (decimal, major units) is *)
(* held in thousandths of the currency unit ("mills"), an intent's amount  *)
(* in cents, as the terminal API does.                                     *)
(* Identifiers are token sequences, so that the prefix tests of the code   *)
(* (startsWith) are computed on them: "mock_pay_1" is <<"mock_","pay","1">>.*)
(***************************************************************************)
EXTENDS Integers, Sequences, FiniteSets, TLC

VARIABLES
    MP_ACCESS_TOKEN,    \* TRUE iff process.env.MP_ACCESS_TOKEN is set
    MP_DEVICE_ID,       \* TRUE iff process.env.MP_DEVICE_ID is set
    intents,            \* gateway: terminal payment intents, by intent id
    payments,           \* gateway: payments, by payment id
    confirmedPayments,  \* the in-process Map of confirmed payments, by cache key
    orders,             \* table orders, by order id
    stock,              \* table products, column stock, by product id
    now,                \* Date.now(), in ticks
    lastPoll,           \* the last exchange recorded: request, response, gateway calls
    everApproved,       \* payment ids for which some status check has answered approved
    stores,             \* table stores, by store id
    req,                \* the request the store middleware handled last
    idempotency,        \* gateway: the idempotency keys seen, each with its payment
    placed,             \* table orders of the kiosk with accounts, by order id
    users,              \* table users, by user id: the row's historico
    inflight            \* the webhook requests in flight: position and locals of each

config == <<MP_ACCESS_TOKEN, MP_DEVICE_ID>>

tenancy == <<stores, req>>

\* the state beside the payment flow of one request
aside == <<idempotency, placed, users, inflight>>

vars == <<MP_ACCESS_TOKEN, MP_DEVICE_ID, intents, payments, confirmedPayments, orders, stock,
          now, lastPoll, everApproved, stores, req, idempotency, placed, users,
          inflight>>

-----------------------------------------------------------------------------
(* Bounds of the model *)
MaxStock == 2
MaxQty == 1
MaxTime == 1
\* the clock of the cache runs past the retention of an entry made late
MaxClock == 4
\* the retention of the cache, 3600000 ms, in ticks of half an hour
Retention == 2

(* Identifiers *)
NoId == <<>>
Range(seq) == {seq[n] : n \in 1..Len(seq)}
IntentIds == {<<"intent", "1">>}
PayIds == {<<"pay", "1">>}
\* the intents of the device queue, where two charge attempts meet
QueueIntentIds == {<<"intent", "1">>, <<"intent", "2">>}
\* `order_${Date.now()}`
OrderIdAt(t) == <<"order_", ToString(t)>>
OrderIds == {OrderIdAt(t) : t \in 0..MaxTime}
MockIds == {<<"mock_", "pay", "1">>, <<"mock_", "pix", "1">>}
PollIds == IntentIds \cup PayIds \cup MockIds
ProductIds == {"prod1"}

\* String.prototype.startsWith on token sequences
StartsWith(s, prefix) ==
    /\ Len(prefix) <= Len(s)
    /\ SubSeq(s, 1, Len(prefix)) = prefix

(* Gateway data *)
IntentStates == {"OPEN", "ON_TERMINAL", "PROCESSING", "FINISHED", "PROCESSED",
                 "CANCELED", "ERROR"}
PaymentStatuses == {"pending", "approved", "authorized", "rejected", "cancelled"}
\* request amounts of the kiosk, in mills: R$ 25.00
Amounts == {25000}
\* the payments of the account in the order of their creation
PayOrder == <<<<"pay", "1">>, <<"pay", "2">>>>
SearchPayIds == Range(PayOrder)
\* the position of a payment in the order of creation
CreatedAt(p) == CHOOSE n \in 1..Len(PayOrder) : PayOrder[n] = p
\* the charge of the searches, 10.00, in cents, and the amounts paid about it:
\* 10.00, 10.005, 10.01 and 10.02 in thousandths
SearchCents == 1000
NearAmounts == {10000, 10005, 10010, 10020}
\* the pairs one cent apart whose difference in doubles is below 0.01:
\* 10.01 - 10 is 0.009999999999999787
RoundsBelowCent == {<<10010, 10000>>}

NoIntent == [state |-> "NONE", amount |-> 0, ref |-> NoId, payment |-> NoId]
NoPayment == [status |-> "NONE", amount |-> 0, ref |-> NoId]
NULL == -1   \* SQL NULL (products.stock NULL: unlimited stock)
NoOrder == [status |-> "NONE", paymentStatus |-> "NONE", paymentId |-> NoId,
            items |-> <<>>, completedAt |-> NULL]
NoEntry == [paymentId |-> NoId, amount |-> 0, status |-> "NONE", timestamp |-> 0]
\* a response without a status field carries status "none"
NoPoll == [rev |-> "none", id |-> NoId, http |-> 0, status |-> "none",
           paymentId |-> NoId, calls |-> <<>>]

\* Math.round(x * 100) of an amount held in mills (half rounds up)
RoundToCents(mills) == (mills + 5) \div 10
\* cents / 100 as a decimal amount, in mills
CentsToAmount(cents) == cents * 10

CacheKeys == {RoundToCents(a) : a \in Amounts}

-----------------------------------------------------------------------------
(* Outcome of one fetch(): "ok" the gateway answers from its state, "err" it
   answers non-2xx with a JSON error body, "throw" the request or the
   decoding of the body throws. Without an access token the gateway rejects
   every call. *)
Outcomes == IF MP_ACCESS_TOKEN THEN {"ok", "err", "throw"} ELSE {"err", "throw"}

\* the stores table and the request of the store middleware
StoreIds == {"loja-padrao", "loja-a"}
NoHeader == <<"undefined">>
Headers == StoreIds \cup {"loja-x", "", NoHeader}
NoStore == [id |-> "", mp_access_token |-> NoId, mp_device_id |-> NoId]
TokenOf(s) == <<"token", s>>
DeviceOf(s) == <<"device", s>>
\* the rows a store id can have: a token or NULL, a device or NULL
StoreRows(s) ==
    {[id |-> s, mp_access_token |-> t, mp_device_id |-> d] :
        t \in {TokenOf(s), NoId}, d \in {DeviceOf(s), NoId}}
NoStores == [s \in StoreIds |-> NoStore]
NoRequest == [via |-> "none", header |-> NoHeader, db |-> "ok", http |-> 0,
              next |-> FALSE, store |-> NoStore]

\* the users table: a user id has no row, or a row with its historico
UserIds == {<<"user_", "1">>, <<"user_", "2">>}
NoUser == [exists |-> FALSE, historico |-> <<>>]
NewUser == [exists |-> TRUE, historico |-> <<>>]
\* a row of the orders table of the kiosk with accounts
NoRow == [userId |-> NoId, status |-> "NONE", items |-> <<>>]

\* the webhook requests that run side by side, each for one payment
Hooks == {"hook1", "hook2"}
\* a request that has not arrived; its locals are unset
NoHook == [pc |-> "none", payment |-> NoId, items |-> <<>>, stock |-> NULL]

\* no idempotency key was seen yet, no order was placed, no user has a row,
\* no webhook is in flight
InitAside ==
    /\ idempotency = {}
    /\ placed = [o \in OrderIds |-> NoRow]
    /\ users = [u \in UserIds |-> NoUser]
    /\ inflight = [h \in Hooks |-> NoHook]

Init ==
    /\ MP_ACCESS_TOKEN \in BOOLEAN
    /\ MP_DEVICE_ID \in BOOLEAN
    /\ intents = [i \in IntentIds |-> NoIntent]
    /\ payments = [p \in PayIds |-> NoPayment]
    /\ confirmedPayments = [k \in CacheKeys |-> NoEntry]
    /\ orders = [o \in OrderIds |-> NoOrder]
    /\ stock = [p \in ProductIds |-> MaxStock]
    /\ now = 0
    /\ lastPoll = NoPoll
    /\ everApproved = {}
    /\ stores = NoStores
    /\ req = NoRequest
    /\ InitAside

\* the store with its terminal configured; the catalog may hold products of
\* unlimited stock
InitStore ==
    /\ MP_ACCESS_TOKEN \in BOOLEAN
    /\ MP_DEVICE_ID = TRUE
    /\ intents = [i \in IntentIds |-> NoIntent]
    /\ payments = [p \in PayIds |-> NoPayment]
    /\ confirmedPayments = [k \in CacheKeys |-> NoEntry]
    /\ orders = [o \in OrderIds |-> NoOrder]
    /\ stock \in [ProductIds -> {NULL, MaxStock}]
    /\ now = 0
    /\ lastPoll = NoPoll
    /\ everApproved = {}
    /\ stores = NoStores
    /\ req = NoRequest
    /\ InitAside

-----------------------------------------------------------------------------
(* The gateway and the terminal: what the cardholder and Mercado Pago do *)

\* the terminal shows the intent, the cardholder starts paying
EnvTerminal(i) ==
    /\ intents[i].state \in {"OPEN", "ON_TERMINAL"}
    /\ intents' = [intents EXCEPT ![i].state =
                      IF intents[i].state = "OPEN" THEN "ON_TERMINAL" ELSE "PROCESSING"]
    /\ UNCHANGED <<tenancy, config, aside, payments, confirmedPayments, orders, stock,
                   now, lastPoll, everApproved>>

\* the charge is made: the gateway creates the payment p of the intent's
\* amount; the terminal may or may not propagate the reference, and may or
\* may not have reported the outcome on the intent yet
EnvPay(i, p) ==
    /\ intents[i].state = "PROCESSING"
    /\ intents[i].payment = NoId
    /\ payments[p] = NoPayment
    /\ \E st \in {"approved", "authorized", "rejected"}, keepRef \in BOOLEAN,
          reported \in BOOLEAN, linked \in BOOLEAN :
         /\ payments' = [payments EXCEPT ![p] =
               [status |-> st,
                amount |-> CentsToAmount(intents[i].amount),
                ref |-> IF keepRef THEN intents[i].ref ELSE NoId]]
         /\ \E s2 \in IF ~reported THEN {"PROCESSING"}
                      ELSE IF st = "rejected" THEN {"ERROR"}
                      ELSE {"FINISHED", "PROCESSED"} :
               intents' = [intents EXCEPT ![i].state = s2,
                                          ![i].payment = IF linked THEN p ELSE NoId]
    /\ UNCHANGED <<tenancy, config, aside, confirmedPayments, orders, stock,
                   now, lastPoll, everApproved>>

\* the operator cancels on the terminal
EnvCancel(i) ==
    /\ intents[i].state \in {"OPEN", "ON_TERMINAL"}
    /\ intents' = [intents EXCEPT ![i].state = "CANCELED"]
    /\ UNCHANGED <<tenancy, config, aside, payments, confirmedPayments, orders, stock,
                   now, lastPoll, everApproved>>

\* the gateway settles a payment: a PIX is paid or expires, an authorization
\* is captured
EnvPaymentUpdate(p) ==
    /\ payments[p].status \in {"pending", "authorized"}
    /\ \E st \in IF payments[p].status = "pending"
                 THEN {"approved", "cancelled"} ELSE {"approved"} :
         payments' = [payments EXCEPT ![p].status = st]
    /\ UNCHANGED <<tenancy, config, aside, intents, confirmedPayments, orders, stock,
                   now, lastPoll, everApproved>>

\* a sale of the account is paid at the gateway: the payment gets the next
\* id; it may be the charge of the intent or any other sale
EnvSale(p, amount, status, ref) ==
    /\ payments[p] = NoPayment
    /\ \A q \in DOMAIN payments : CreatedAt(q) < CreatedAt(p) => payments[q] # NoPayment
    /\ payments' = [payments EXCEPT ![p] =
          [status |-> status, amount |-> amount, ref |-> ref]]
    /\ UNCHANGED <<tenancy, config, aside, intents, confirmedPayments, orders, stock,
                   now, lastPoll, everApproved>>

Tick ==
    /\ now < MaxTime
    /\ now' = now + 1
    /\ UNCHANGED <<tenancy, config, aside, intents, payments, confirmedPayments, orders,
                   stock, lastPoll, everApproved>>

\* time passes in the life of the cache
Clock ==
    /\ now < MaxClock
    /\ now' = now + 1
    /\ UNCHANGED <<tenancy, config, aside, intents, payments, confirmedPayments, orders,
                   stock, lastPoll, everApproved>>

-----------------------------------------------------------------------------
(* POST /api/payment/create: PIX payment or terminal intent *)

\* the exchange of a create request: the response and the gateway calls
Created(http, status, id, calls) ==
    [rev |-> "create", id |-> NoId, http |-> http, status |-> status,
     paymentId |-> id, calls |-> calls]

PaymentCreate(paymentMethod, amount, orderId, out) ==
    /\ IF paymentMethod = "pix"
       THEN \* a PIX payment is created at the gateway, pending
            \/ /\ out = "ok"
               /\ \E p \in PayIds :
                    /\ payments[p] = NoPayment
                    /\ payments' = [payments EXCEPT ![p] =
                          [status |-> "pending", amount |-> amount, ref |-> orderId]]
                    /\ lastPoll' = Created(200, "pending", p, <<"POST payment">>)
               /\ UNCHANGED intents
            \/ /\ out # "ok"
               /\ lastPoll' = Created(500, "none", NoId, <<"POST payment">>)
               /\ UNCHANGED <<intents, payments>>
       ELSE IF ~MP_ACCESS_TOKEN \/ ~MP_DEVICE_ID
       THEN \* mock id, no gateway call
            /\ lastPoll' = Created(200, "pending", <<"mock_", "pay", "1">>, <<>>)
            /\ UNCHANGED <<intents, payments>>
       ELSE \/ /\ out = "ok"
               /\ \E i \in DOMAIN intents :
                    /\ intents[i] = NoIntent
                    /\ intents' = [intents EXCEPT ![i] =
                          [state |-> "OPEN", amount |-> RoundToCents(amount),
                           ref |-> orderId, payment |-> NoId]]
                    /\ lastPoll' = Created(200, "open", i, <<"POST intent">>)
               /\ UNCHANGED payments
            \/ /\ out # "ok"
               /\ lastPoll' = Created(500, "none", NoId, <<"POST intent">>)
               /\ UNCHANGED <<intents, payments>>
    /\ UNCHANGED <<tenancy, config, aside, confirmedPayments, orders, stock, now, everApproved>>

-----------------------------------------------------------------------------
(* Orders *)

ItemLists == {<<[id |-> "prod1", quantity |-> q]>> : q \in 1..MaxQty}
\* orders that ask for more than the stock holds
LargeItemLists == {<<[id |-> "prod1", quantity |-> q]>> : q \in 1..(MaxStock + 1)}

\* POST /api/orders: the row is inserted already paid; the primary key is
\* the creation time, a second insert in the same tick fails
PostOrders(items, paymentId) ==
    /\ orders[OrderIdAt(now)] = NoOrder
    /\ orders' = [orders EXCEPT ![OrderIdAt(now)] =
          [status |-> "active", paymentStatus |-> "paid", paymentId |-> paymentId,
           items |-> items, completedAt |-> NULL]]
    /\ UNCHANGED <<tenancy, config, aside, intents, payments, confirmedPayments, stock,
                   now, lastPoll, everApproved>>

\* DELETE /api/orders/:id rewriting the whole row from the column defaults
DeleteOrderResetsPayment(o) ==
    /\ orders[o] # NoOrder
    /\ orders' = [orders EXCEPT ![o].status = "completed", ![o].completedAt = now,
                                ![o].paymentStatus = "pending"]
    /\ UNCHANGED <<tenancy, config, aside, intents, payments, confirmedPayments, stock,
                   now, lastPoll, everApproved>>

\* DELETE /api/orders/:id
DeleteOrder(o) ==
    /\ orders[o] # NoOrder
    /\ orders' = [orders EXCEPT ![o].status = "completed", ![o].completedAt = now]
    /\ UNCHANGED <<tenancy, config, aside, intents, payments, confirmedPayments, stock,
                   now, lastPoll, everApproved>>

-----------------------------------------------------------------------------
(* Notifications *)

Max(a, b) == IF a >= b THEN a ELSE b

\* body of GET /v1/payments/:id as the handlers read it (status undefined on
\* an error body)
FetchPayment(p, out) ==
    IF out = "ok" /\ p \in PayIds THEN payments[p] ELSE NoPayment

\* a loop that stores the difference as it is
RECURSIVE DecrementStockUnclamped(_, _)
DecrementStockUnclamped(items, st) ==
    IF items = <<>> THEN st
    ELSE LET item == Head(items)
             newStock == st[item.id] - item.quantity
         IN DecrementStockUnclamped(Tail(items),
               IF item.id \in DOMAIN st /\ st[item.id] # NULL
               THEN [st EXCEPT ![item.id] = newStock]
               ELSE st)

\* the loop over the order's items
RECURSIVE DecrementStock(_, _)
DecrementStock(items, st) ==
    IF items = <<>> THEN st
    ELSE LET item == Head(items)
             newStock == st[item.id] - item.quantity
         IN DecrementStock(Tail(items),
               IF item.id \in DOMAIN st /\ st[item.id] # NULL
               THEN [st EXCEPT ![item.id] = Max(0, newStock)]
               ELSE st)

\* a set that keeps the entry the key already has
CacheSetFirstWins(cache, payId, payment) ==
    IF cache[RoundToCents(payment.amount)] # NoEntry THEN cache
    ELSE [cache EXCEPT ![RoundToCents(payment.amount)] =
            [paymentId |-> payId, amount |-> payment.amount,
             status |-> payment.status, timestamp |-> now]]

\* confirmedPayments.set(cacheKey, {...})
CacheSet(cache, payId, payment) ==
    [cache EXCEPT ![RoundToCents(payment.amount)] =
        [paymentId |-> payId, amount |-> payment.amount,
         status |-> payment.status, timestamp |-> now]]

\* a step of a receiver: the response it sends, a fetch from the gateway, a
\* write of the cache or an access to the store
Step(kind, what) == [kind |-> kind, what |-> what]

\* a webhook receiver that answers when its processing is over
WebhookStepsAnswerLast(action, p, out, db) ==
    IF action \notin {"payment.created", "payment.updated"} \/ p = NoId
    THEN <<Step("response", "200")>>
    ELSE IF out = "throw"
    THEN <<Step("fetch", "GET payment"), Step("response", "500")>>
    ELSE <<Step("fetch", "GET payment"), Step("response", "200")>>

\* a webhook receiver that takes every payment it can fetch for confirmed
WebhookStepsAnyStatus(action, p, out, db) ==
    LET payment == FetchPayment(p, out)
        externalRef == payment.ref
    IN <<Step("response", "200")>> \o
       (IF action \notin {"payment.created", "payment.updated"} \/ p = NoId
        THEN <<>>
        ELSE <<Step("fetch", "GET payment")>> \o
             (IF out = "throw" \/ payment = NoPayment
              THEN <<>>
              ELSE <<Step("cache", "set")>> \o
                   (IF externalRef = NoId
                    THEN <<>>
                    ELSE <<Step("store", "SELECT order")>> \o
                         (IF /\ db = "ok"
                             /\ externalRef \in OrderIds
                             /\ orders[externalRef] # NoOrder
                          THEN <<Step("store", "UPDATE products")>>
                          ELSE <<>>))))

\* the steps of POST /api/webhooks/mercadopago in the order of the handler;
\* db is the outcome of the store's queries
WebhookSteps(action, p, out, db) ==
    LET payment == FetchPayment(p, out)
        externalRef == payment.ref
    IN <<Step("response", "200")>> \o
       (IF action \notin {"payment.created", "payment.updated"} \/ p = NoId
        THEN <<>>
        ELSE <<Step("fetch", "GET payment")>> \o
             (IF out = "throw" \/ payment.status \notin {"approved", "authorized"}
              THEN <<>>
              ELSE <<Step("cache", "set")>> \o
                   (IF externalRef = NoId
                    THEN <<>>
                    ELSE <<Step("store", "SELECT order")>> \o
                         (IF /\ db = "ok"
                             /\ externalRef \in OrderIds
                             /\ orders[externalRef] # NoOrder
                          THEN <<Step("store", "UPDATE products")>>
                          ELSE <<>>))))

\* POST /api/webhooks/mercadopago
Webhook(action, p, out, db) ==
    LET payment == FetchPayment(p, out)
        steps == Range(WebhookSteps(action, p, out, db))
    IN /\ confirmedPayments' =
            IF Step("cache", "set") \in steps
            THEN CacheSet(confirmedPayments, p, payment)
            ELSE confirmedPayments
       /\ stock' =
            IF Step("store", "UPDATE products") \in steps
            THEN DecrementStock(orders[payment.ref].items, stock)
            ELSE stock
       /\ UNCHANGED <<tenancy, config, aside, intents, payments, orders, now, lastPoll,
                      everApproved>>

\* the steps of POST /api/notifications/mercadopago in the order of the
\* handler
IpnSteps(topic, p, out) ==
    LET payment == FetchPayment(p, out)
    IN <<Step("response", "200")>> \o
       (IF topic # "payment" \/ p = NoId
        THEN <<>>
        ELSE <<Step("fetch", "GET payment")>> \o
             (IF out = "throw" \/ payment.status \notin {"approved", "authorized"}
              THEN <<>>
              ELSE <<Step("cache", "set")>>))

\* POST /api/notifications/mercadopago
Ipn(topic, p, out) ==
    LET payment == FetchPayment(p, out)
    IN /\ confirmedPayments' =
            IF Step("cache", "set") \in Range(IpnSteps(topic, p, out))
            THEN CacheSet(confirmedPayments, p, payment)
            ELSE confirmedPayments
       /\ UNCHANGED <<tenancy, config, aside, intents, payments, orders, stock, now,
                      lastPoll, everApproved>>

-----------------------------------------------------------------------------
(* GET /api/payment/status/:paymentId, in its four revisions.  Each
   operator computes the response, the gateway calls issued in order and
   whether the DELETE of the intent took effect at the gateway. *)

Reply(http, status, paymentId, calls, deleted) ==
    [http |-> http, status |-> status, paymentId |-> paymentId,
     calls |-> calls, deleted |-> deleted]

\* GET .../payment-intents/:id answered 2xx
IntentOk(id, out) == out = "ok" /\ id \in DOMAIN intents /\ intents[id] # NoIntent
\* the decoded body of GET .../payment-intents/:id; an error body has no
\* state, no payment, no amount
IntentBody(id, out) == IF IntentOk(id, out) THEN intents[id] ELSE NoIntent
\* GET /v1/payments/:id answered 2xx
PaymentOk(id, out) == out = "ok" /\ id \in PayIds /\ payments[id] # NoPayment

\* a hybrid status check that takes an id found nowhere for a cancellation
HybridStatusCancelsUnknown(id, o1, o2) ==
    IF StartsWith(id, <<"mock_">>)
    THEN Reply(200, "approved", NoId, <<>>, FALSE)
    ELSE IF ~MP_ACCESS_TOKEN
    THEN Reply(500, "none", NoId, <<>>, FALSE)
    ELSE IF o1 = "throw"
    THEN Reply(200, "pending", NoId, <<"GET intent">>, FALSE)
    ELSE IF IntentOk(id, o1)
    THEN LET intent == intents[id]
         IN IF intent.payment # NoId
            THEN Reply(200, "approved", intent.payment,
                       <<"GET intent", "DELETE intent">>, o2 = "ok")
            ELSE IF intent.state = "FINISHED"
            THEN Reply(200, "approved", NoId, <<"GET intent">>, FALSE)
            ELSE IF intent.state \in {"CANCELED", "ERROR"}
            THEN Reply(200, "canceled", NoId, <<"GET intent">>, FALSE)
            ELSE Reply(200, "pending", NoId, <<"GET intent">>, FALSE)
    ELSE IF o2 = "throw"
    THEN Reply(200, "pending", NoId, <<"GET intent", "GET payment">>, FALSE)
    ELSE IF PaymentOk(id, o2)
    THEN LET payment == payments[id]
         IN IF payment.status = "approved"
            THEN Reply(200, "approved", id,
                       <<"GET intent", "GET payment">>, FALSE)
            ELSE IF payment.status \in {"cancelled", "rejected"}
            THEN Reply(200, "canceled", NoId,
                       <<"GET intent", "GET payment">>, FALSE)
            ELSE Reply(200, "pending", NoId,
                       <<"GET intent", "GET payment">>, FALSE)
    ELSE Reply(200, "canceled", NoId, <<"GET intent", "GET payment">>, FALSE)

\* server.js, hybrid revision (payment intent, then PIX payment)
HybridStatus(id, o1, o2) ==
    IF StartsWith(id, <<"mock_">>)
    THEN Reply(200, "approved", NoId, <<>>, FALSE)
    ELSE IF ~MP_ACCESS_TOKEN
    THEN Reply(500, "none", NoId, <<>>, FALSE)
    ELSE IF o1 = "throw"
    THEN Reply(200, "pending", NoId, <<"GET intent">>, FALSE)
    ELSE IF IntentOk(id, o1)
    THEN LET intent == intents[id]
         IN IF intent.payment # NoId
            THEN Reply(200, "approved", intent.payment,
                       <<"GET intent", "DELETE intent">>, o2 = "ok")
            ELSE IF intent.state = "FINISHED"
            THEN Reply(200, "approved", NoId, <<"GET intent">>, FALSE)
            ELSE IF intent.state \in {"CANCELED", "ERROR"}
            THEN Reply(200, "canceled", NoId, <<"GET intent">>, FALSE)
            ELSE Reply(200, "pending", NoId, <<"GET intent">>, FALSE)
    ELSE IF o2 = "throw"
    THEN Reply(200, "pending", NoId, <<"GET intent", "GET payment">>, FALSE)
    ELSE IF PaymentOk(id, o2)
    THEN LET payment == payments[id]
         IN IF payment.status = "approved"
            THEN Reply(200, "approved", id,
                       <<"GET intent", "GET payment">>, FALSE)
            ELSE IF payment.status \in {"cancelled", "rejected"}
            THEN Reply(200, "canceled", NoId,
                       <<"GET intent", "GET payment">>, FALSE)
            ELSE Reply(200, "pending", NoId,
                       <<"GET intent", "GET payment">>, FALSE)
    ELSE Reply(200, "pending", NoId, <<"GET intent", "GET payment">>, FALSE)

Abs(x) == IF x < 0 THEN -x ELSE x

\* Math.abs(a - b) < 0.01 for amounts in thousandths: the doubles decide at a
\* difference of one cent
BelowCent(a, b) ==
    IF Abs(a - b) = 10 THEN <<a, b>> \in RoundsBelowCent ELSE Abs(a - b) < 10

\* the predicate of payments.find: approved or authorized, and the amount
\* within a cent of the expected one
AmountMatches(payment, expectedAmount) ==
    /\ payment.status \in {"approved", "authorized"}
    /\ BelowCent(payment.amount, expectedAmount)

\* results of /v1/payments/search over the last 10 minutes
RecentPayments(out) ==
    IF out = "ok" THEN {p \in DOMAIN payments : payments[p] # NoPayment} ELSE {}

\* a find over the results sorted by date_created ascending
FoundByAmountOldest(expectedAmount, out) ==
    LET qualifying == {p \in RecentPayments(out) :
                          AmountMatches(payments[p], expectedAmount)}
    IN IF qualifying = {} THEN NoId
       ELSE CHOOSE p \in qualifying :
               \A q \in qualifying : CreatedAt(p) <= CreatedAt(q)

\* payments.find over the results sorted by date_created descending: the
\* first that matches
FoundByAmount(expectedAmount, out) ==
    LET qualifying == {p \in RecentPayments(out) :
                          AmountMatches(payments[p], expectedAmount)}
    IN IF qualifying = {} THEN NoId
       ELSE CHOOSE p \in qualifying :
               \A q \in qualifying : CreatedAt(q) <= CreatedAt(p)

\* server.js, value-search revision
ValueStatus(id, o1, o2, o3) ==
    IF StartsWith(id, <<"mock_", "pay">>)
    THEN Reply(200, "approved", NoId, <<>>, FALSE)
    ELSE IF o1 = "throw"
    THEN Reply(200, "pending", NoId, <<"GET intent">>, FALSE)
    ELSE LET dataIntent == IntentBody(id, o1)
             expectedAmount == CentsToAmount(dataIntent.amount)
         IN IF dataIntent.state \in {"FINISHED", "PROCESSED"}
            THEN Reply(200, "approved", NoId, <<"GET intent">>, FALSE)
            ELSE IF dataIntent.payment # NoId
            THEN Reply(200, "approved", NoId, <<"GET intent">>, FALSE)
            ELSE IF expectedAmount > 0
            THEN IF o2 = "throw"
                 THEN Reply(200, "pending", NoId,
                            <<"GET intent", "SEARCH amount">>, FALSE)
                 ELSE IF FoundByAmount(expectedAmount, o2) # NoId
                 THEN Reply(200, "approved", NoId,
                            <<"GET intent", "SEARCH amount", "DELETE intent">>,
                            o3 = "ok")
                 ELSE Reply(200, "pending", NoId,
                            <<"GET intent", "SEARCH amount">>, FALSE)
            ELSE Reply(200, "pending", NoId, <<"GET intent">>, FALSE)

\* results of /v1/payments/search?external_reference=ref&status=approved
ApprovedByReference(ref, out) ==
    IF out = "ok"
    THEN {p \in DOMAIN payments :
             payments[p].ref = ref /\ payments[p].status = "approved"}
    ELSE {}

\* reference-check revision
ReferenceStatus(id, o1, o2) ==
    IF StartsWith(id, <<"mock_", "pay">>)
    THEN Reply(200, "approved", NoId, <<>>, FALSE)
    ELSE IF ~MP_ACCESS_TOKEN
    THEN Reply(500, "none", NoId, <<>>, FALSE)
    ELSE IF o1 = "throw"
    THEN Reply(200, "pending", NoId, <<"GET intent">>, FALSE)
    ELSE LET dataIntent == IntentBody(id, o1)
         IN IF dataIntent.state \in {"FINISHED", "PROCESSED"}
            THEN Reply(200, "approved", NoId, <<"GET intent">>, FALSE)
            ELSE IF dataIntent.payment # NoId
            THEN Reply(200, "approved", NoId, <<"GET intent">>, FALSE)
            ELSE IF dataIntent.ref # NoId
            THEN IF o2 = "throw"
                 THEN Reply(200, "pending", NoId,
                            <<"GET intent", "SEARCH reference">>, FALSE)
                 ELSE IF ApprovedByReference(dataIntent.ref, o2) # {}
                 THEN Reply(200, "approved", NoId,
                            <<"GET intent", "SEARCH reference">>, FALSE)
                 ELSE Reply(200, "pending", NoId,
                            <<"GET intent", "SEARCH reference">>, FALSE)
            ELSE Reply(200, "pending", NoId, <<"GET intent">>, FALSE)

\* paymentService.checkPaymentStatus: the gateway payment's status as is;
\* "thrown" when it throws
checkPaymentStatus(paymentId, o1) ==
    IF ~MP_ACCESS_TOKEN THEN "thrown"
    ELSE IF o1 = "throw" THEN "thrown"
    ELSE IF ~PaymentOk(paymentId, o1) THEN "thrown"
    ELSE payments[paymentId].status

\* paymentController.checkStatus over paymentService.checkPaymentStatus
checkStatus(id, o1) ==
    IF ~MP_ACCESS_TOKEN
    THEN Reply(500, "none", NoId, <<>>, FALSE)
    ELSE LET result == checkPaymentStatus(id, o1)
         IN IF result = "thrown"
            THEN Reply(500, "none", NoId, <<"GET payment">>, FALSE)
            ELSE Reply(200, result, id, <<"GET payment">>, FALSE)

\* an engine that gives up the intent it reports pending
RespondExpiring(rev, id, r) ==
    /\ lastPoll' = [rev |-> rev, id |-> id, http |-> r.http, status |-> r.status,
                    paymentId |-> r.paymentId, calls |-> r.calls]
    /\ intents' = IF id \in DOMAIN intents /\ (r.deleted \/ r.status = "pending")
                  THEN [intents EXCEPT ![id] = NoIntent] ELSE intents
    /\ everApproved' = IF r.status = "approved" THEN everApproved \cup {id}
                       ELSE everApproved
    /\ UNCHANGED <<tenancy, config, aside, payments, confirmedPayments, orders, stock, now>>

\* the exchange is recorded; an effective DELETE removes the intent
Respond(rev, id, r) ==
    /\ lastPoll' = [rev |-> rev, id |-> id, http |-> r.http, status |-> r.status,
                    paymentId |-> r.paymentId, calls |-> r.calls]
    /\ intents' = IF r.deleted THEN [intents EXCEPT ![id] = NoIntent] ELSE intents
    /\ everApproved' = IF r.status = "approved" THEN everApproved \cup {id}
                       ELSE everApproved
    /\ UNCHANGED <<tenancy, config, aside, payments, confirmedPayments, orders, stock, now>>

StatusHybrid(id) ==
    \E o1 \in Outcomes, o2 \in Outcomes : Respond("hybrid", id, HybridStatus(id, o1, o2))

StatusValue(id) ==
    \E o1 \in Outcomes, o2 \in Outcomes, o3 \in Outcomes :
        Respond("value", id, ValueStatus(id, o1, o2, o3))

StatusReference(id) ==
    \E o1 \in Outcomes, o2 \in Outcomes :
        Respond("reference", id, ReferenceStatus(id, o1, o2))

StatusController(id) ==
    \E o1 \in Outcomes : Respond("controller", id, checkStatus(id, o1))

-----------------------------------------------------------------------------------------------------------------------------------------------------
(* The device queue of server.js: the periodic cleanup, cancel and
   clear-queue.  Each gateway call is recorded with its target and its
   answer. *)

\* answers of DELETE .../payment-intents/:id: removed, already gone, busy
\* (the only non-2xx answer told apart), or no answer
DeleteOutcomes == {"204", "404", "409", "throw"}
\* answers of PUT /v1/payments/:id
PutOutcomes == {"ok", "404", "500", "throw"}

Call(verb, id, answer) == [verb |-> verb, id |-> id, answer |-> answer]

\* the answers of the DELETEs when none is asked
Unasked == <<>>

\* the intents on the device
Queue == {i \in DOMAIN intents : intents[i] # NoIntent}

\* data.events of GET .../payment-intents, in the order of the list
RECURSIVE Events(_)
Events(q) ==
    IF q = {} THEN <<>>
    ELSE LET i == CHOOSE x \in q : TRUE IN <<i>> \o Events(q \ {i})

\* the exchange of a queue operation
Answered(rev, id, http, status, calls) ==
    [rev |-> rev, id |-> id, http |-> http, status |-> status,
     paymentId |-> NoId, calls |-> calls]

\* a cleanup that also takes the intents waiting on the terminal
shouldCleanWaiting(state) == state \in {"FINISHED", "CANCELED", "ERROR", "OPEN"}

shouldClean(state) == state \in {"FINISHED", "CANCELED", "ERROR"}

\* the DELETEs of the cleanup loop over the events
RECURSIVE CleanupCalls(_, _)
CleanupCalls(events, del) ==
    IF events = <<>> THEN <<>>
    ELSE (IF shouldClean(intents[Head(events)].state)
          THEN <<Call("DELETE", Head(events), del[Head(events)])>> ELSE <<>>)
         \o CleanupCalls(Tail(events), del)

\* the intents that the DELETEs answered 204 removed
Removed(calls) ==
    {i \in Queue : \E n \in 1..Len(calls) : calls[n] = Call("DELETE", i, "204")}

\* setInterval(..., 120000): the cleanup of the intents already finished; it
\* answers nobody, its calls are recorded
AutoCleanup(list, del) ==
    LET calls == IF ~MP_ACCESS_TOKEN \/ ~MP_DEVICE_ID THEN <<>>
                 ELSE IF list # "ok" THEN <<Call("LIST", NoId, list)>>
                 ELSE <<Call("LIST", NoId, list)>> \o CleanupCalls(Events(Queue), del)
    IN /\ intents' = [i \in DOMAIN intents |->
                        IF i \in Removed(calls) THEN NoIntent ELSE intents[i]]
       /\ lastPoll' = Answered("auto-cleanup", NoId, 0, "none", calls)
       /\ UNCHANGED <<tenancy, config, aside, payments, confirmedPayments, orders, stock, now,
                      everApproved>>

\* a cancel loop that never retries
RECURSIVE CancelCallsOnce(_, _, _)
CancelCallsOnce(events, del, retry) ==
    IF events = <<>> THEN <<>>
    ELSE <<Call("DELETE", Head(events), del[Head(events)])>>
         \o CancelCallsOnce(Tail(events), del, retry)

\* the DELETEs of the cancel loop: every event, a 409 retried once
RECURSIVE CancelCalls(_, _, _)
CancelCalls(events, del, retry) ==
    IF events = <<>> THEN <<>>
    ELSE (IF del[Head(events)] = "409"
          THEN <<Call("DELETE", Head(events), "409"),
                 Call("DELETE", Head(events), retry[Head(events)])>>
          ELSE <<Call("DELETE", Head(events), del[Head(events)])>>)
         \o CancelCalls(Tail(events), del, retry)

\* DELETE /api/payment/cancel/:paymentId
Cancel(paymentId, list, del, retry, put) ==
    /\ IF ~MP_ACCESS_TOKEN
       THEN /\ lastPoll' = Answered("cancel", paymentId, 200, "success", <<>>)
            /\ UNCHANGED <<intents, payments>>
       ELSE IF MP_DEVICE_ID /\ list = "ok"
       THEN LET calls == <<Call("LIST", NoId, list)>>
                         \o CancelCalls(Events(Queue), del, retry)
            IN /\ intents' = [i \in DOMAIN intents |->
                                IF i \in Removed(calls) THEN NoIntent ELSE intents[i]]
               /\ lastPoll' = Answered("cancel", paymentId, 200, "success", calls)
               /\ UNCHANGED payments
       ELSE LET listed == IF MP_DEVICE_ID THEN <<Call("LIST", NoId, list)>> ELSE <<>>
                calls == listed \o <<Call("PUT", paymentId, put)>>
                cancellable == /\ paymentId \in PayIds
                               /\ payments[paymentId].status = "pending"
            IN /\ put = "ok" => cancellable
               /\ payments' = IF put = "ok"
                               THEN [payments EXCEPT ![paymentId].status = "cancelled"]
                               ELSE payments
               /\ lastPoll' =
                     IF put = "throw"
                     THEN Answered("cancel", paymentId, 500, "failure", calls)
                     ELSE IF put \in {"ok", "404"}
                     THEN Answered("cancel", paymentId, 200, "success", calls)
                     ELSE Answered("cancel", paymentId, 200, "failure", calls)
               /\ UNCHANGED intents
    /\ UNCHANGED <<tenancy, config, aside, confirmedPayments, orders, stock, now, everApproved>>

\* a clear-queue loop that gives up after its first DELETE
ClearCallsFirst(events, del) ==
    IF events = <<>> THEN <<>>
    ELSE <<Call("DELETE", Head(events), del[Head(events)])>>

\* the DELETEs of the clear-queue loop: every event, once
RECURSIVE ClearCalls(_, _)
ClearCalls(events, del) ==
    IF events = <<>> THEN <<>>
    ELSE <<Call("DELETE", Head(events), del[Head(events)])>>
         \o ClearCalls(Tail(events), del)

\* POST /api/payment/clear-queue
ClearQueue(list, del) ==
    /\ IF ~MP_ACCESS_TOKEN \/ ~MP_DEVICE_ID
       THEN /\ lastPoll' = Answered("clear-queue", NoId, 200, "success", <<>>)
            /\ UNCHANGED intents
       ELSE IF list = "throw"
       THEN /\ lastPoll' = Answered("clear-queue", NoId, 500, "failure",
                                    <<Call("LIST", NoId, list)>>)
            /\ UNCHANGED intents
       ELSE IF list # "ok"
       THEN /\ lastPoll' = Answered("clear-queue", NoId, 200, "failure",
                                    <<Call("LIST", NoId, list)>>)
            /\ UNCHANGED intents
       ELSE LET calls == <<Call("LIST", NoId, list)>> \o ClearCalls(Events(Queue), del)
            IN /\ intents' = [i \in DOMAIN intents |->
                                IF i \in Removed(calls) THEN NoIntent ELSE intents[i]]
               /\ lastPoll' = Answered("clear-queue", NoId, 200, "success", calls)
    /\ UNCHANGED <<tenancy, config, aside, payments, confirmedPayments, orders, stock, now,
                   everApproved>>

-----------------------------------------------------------------------------
(* The multi-tenant controller (paymentController.js) over the payment
   service (paymentService.js).  The store of the request carries the
   credentials; a missing amount is the amount 0. *)

NoAmount == 0

\* what a service function gives back: a result, or an error thrown
Thrown == [thrown |-> TRUE, id |-> NoId, status |-> "none"]
Returned(id, status) == [thrown |-> FALSE, id |-> id, status |-> status]

\* the exchange of a controller operation
Exchange(rev, id, http, status, paymentId, calls) ==
    [rev |-> rev, id |-> id, http |-> http, status |-> status,
     paymentId |-> paymentId, calls |-> calls]

\* paymentService.createPixPayment; p is the id the gateway gives
createPixPayment(p, out) ==
    IF ~MP_ACCESS_TOKEN THEN Thrown
    ELSE IF out # "ok" THEN Thrown
    ELSE Returned(p, "pending")

\* paymentController.createPix
createPix(amount, orderId, out) ==
    \E p \in PayIds :
       LET called == MP_ACCESS_TOKEN /\ amount # NoAmount
           result == createPixPayment(p, out)
           created == called /\ ~result.thrown
       IN /\ created => payments[p] = NoPayment
          /\ payments' = IF created
                          THEN [payments EXCEPT ![p] =
                                  [status |-> "pending", amount |-> amount,
                                   ref |-> orderId]]
                          ELSE payments
          /\ lastPoll' =
                IF ~MP_ACCESS_TOKEN
                THEN Exchange("createPix", NoId, 500, "none", NoId, <<>>)
                ELSE IF amount = NoAmount
                THEN Exchange("createPix", NoId, 400, "none", NoId, <<>>)
                ELSE IF result.thrown
                THEN Exchange("createPix", NoId, 500, "none", NoId, <<"POST payment">>)
                ELSE Exchange("createPix", NoId, 200, result.status, result.id,
                              <<"POST payment">>)
          /\ UNCHANGED <<tenancy, config, aside, intents, confirmedPayments, orders, stock, now,
                         everApproved>>

\* a createCardPayment that answers with a made-up intent when the gateway
\* fails
createCardPaymentMock(i, out) ==
    IF ~MP_ACCESS_TOKEN \/ ~MP_DEVICE_ID THEN Thrown
    ELSE Returned(i, "OPEN")

\* paymentService.createCardPayment; i is the id the gateway gives
createCardPayment(i, out) ==
    IF ~MP_ACCESS_TOKEN \/ ~MP_DEVICE_ID THEN Thrown
    ELSE IF out # "ok" THEN Thrown
    ELSE Returned(i, "OPEN")

\* a createCard that leaves the device check to the service
createCardUnchecked(amount, orderId, out) ==
    \E i \in DOMAIN intents :
       LET result == createCardPayment(i, out)
       IN /\ lastPoll' =
                IF ~MP_ACCESS_TOKEN
                THEN Exchange("createCard", NoId, 500, "none", NoId, <<>>)
                ELSE IF amount = NoAmount
                THEN Exchange("createCard", NoId, 400, "none", NoId, <<>>)
                ELSE IF result.thrown
                THEN Exchange("createCard", NoId, 500, "none", NoId, <<>>)
                ELSE Exchange("createCard", NoId, 200, result.status, result.id,
                              <<"POST intent">>)
          /\ UNCHANGED <<tenancy, config, aside, intents, payments, confirmedPayments, orders,
                         stock, now, everApproved>>

\* paymentController.createCard; the service sends parseFloat(amount), the
\* amount in major units, as the amount of the intent
createCard(amount, orderId, out) ==
    \E i \in DOMAIN intents :
       LET called == MP_ACCESS_TOKEN /\ amount # NoAmount /\ MP_DEVICE_ID
           result == createCardPayment(i, out)
           created == called /\ out = "ok"
       IN /\ created => intents[i] = NoIntent
          /\ intents' = IF created
                         THEN [intents EXCEPT ![i] =
                                 [state |-> "OPEN", amount |-> amount \div 1000,
                                  ref |-> orderId, payment |-> NoId]]
                         ELSE intents
          /\ lastPoll' =
                IF ~MP_ACCESS_TOKEN
                THEN Exchange("createCard", NoId, 500, "none", NoId, <<>>)
                ELSE IF amount = NoAmount
                THEN Exchange("createCard", NoId, 400, "none", NoId, <<>>)
                ELSE IF ~MP_DEVICE_ID
                THEN Exchange("createCard", NoId, 400, "none", NoId, <<>>)
                ELSE IF result.thrown
                THEN Exchange("createCard", NoId, 500, "none", NoId, <<"POST intent">>)
                ELSE Exchange("createCard", NoId, 200, result.status, result.id,
                              <<"POST intent">>)
          /\ UNCHANGED <<tenancy, config, aside, payments, confirmedPayments, orders, stock, now,
                         everApproved>>

\* paymentService.cancelPayment
cancelPayment(paymentId, put) ==
    IF ~MP_ACCESS_TOKEN THEN Thrown
    ELSE IF put # "ok" THEN Thrown
    ELSE Returned(paymentId, "cancelled")

\* paymentController.cancel
cancel(paymentId, put) ==
    LET result == cancelPayment(paymentId, put)
    IN /\ (MP_ACCESS_TOKEN /\ put = "ok")
          => paymentId \in PayIds /\ payments[paymentId].status = "pending"
       /\ payments' = IF ~result.thrown
                       THEN [payments EXCEPT ![paymentId].status = "cancelled"]
                       ELSE payments
       /\ lastPoll' =
             IF ~MP_ACCESS_TOKEN
             THEN Exchange("cancelPayment", paymentId, 500, "none", NoId, <<>>)
             ELSE IF result.thrown
             THEN Exchange("cancelPayment", paymentId, 500, "none", NoId, <<"PUT payment">>)
             ELSE Exchange("cancelPayment", paymentId, 200, result.status, result.id,
                           <<"PUT payment">>)
       /\ UNCHANGED <<tenancy, config, aside, intents, confirmedPayments, orders, stock, now,
                      everApproved>>

\* paymentController.configurePoint over paymentService.configurePoint: a
\* 400 of the PATCH counts as configured
configurePoint(patch) ==
    /\ lastPoll' =
          IF ~MP_ACCESS_TOKEN
          THEN Exchange("configurePoint", NoId, 500, "none", NoId, <<>>)
          ELSE IF ~MP_DEVICE_ID
          THEN Exchange("configurePoint", NoId, 400, "none", NoId, <<>>)
          ELSE IF patch \in {"ok", "400"}
          THEN Exchange("configurePoint", NoId, 200, "configured", NoId,
                        <<"PATCH device">>)
          ELSE Exchange("configurePoint", NoId, 500, "none", NoId, <<"PATCH device">>)
    /\ UNCHANGED <<tenancy, config, aside, intents, payments, confirmedPayments, orders, stock,
                   now, everApproved>>

\* paymentController.getPointStatus over paymentService.getPointStatus
getPointStatus(out) ==
    /\ lastPoll' =
          IF ~MP_ACCESS_TOKEN
          THEN Exchange("getPointStatus", NoId, 500, "none", NoId, <<>>)
          ELSE IF ~MP_DEVICE_ID
          THEN Exchange("getPointStatus", NoId, 400, "none", NoId, <<>>)
          ELSE IF out = "ok"
          THEN Exchange("getPointStatus", NoId, 200, "none", NoId, <<"GET device">>)
          ELSE Exchange("getPointStatus", NoId, 500, "none", NoId, <<"GET device">>)
    /\ UNCHANGED <<tenancy, config, aside, intents, payments, confirmedPayments, orders, stock,
                   now, everApproved>>

\* paymentController.clearQueue over paymentService.clearPaymentQueue: one
\* DELETE on the collection of the device's intents
clearQueue(out) ==
    LET called == MP_ACCESS_TOKEN /\ MP_DEVICE_ID
    IN /\ intents' = IF called /\ out = "ok"
                      THEN [i \in DOMAIN intents |-> NoIntent]
                      ELSE intents
       /\ lastPoll' =
             IF ~MP_ACCESS_TOKEN
             THEN Exchange("clearQueue", NoId, 500, "none", NoId, <<>>)
             ELSE IF ~MP_DEVICE_ID
             THEN Exchange("clearQueue", NoId, 400, "none", NoId, <<>>)
             ELSE IF out = "ok"
             THEN Exchange("clearQueue", NoId, 200, "success", NoId,
                           <<"DELETE intents">>)
             ELSE Exchange("clearQueue", NoId, 500, "none", NoId, <<"DELETE intents">>)
       /\ UNCHANGED <<tenancy, config, aside, payments, confirmedPayments, orders, stock, now,
                      everApproved>>

-----------------------------------------------------------------------------
(* The sweep of the confirmed-payments cache, run by a timer every hour
   from the start of the process; the start is not tied to the times of the
   entries, so a sweep meets an entry at any age. *)

\* the keys in increasing order
RECURSIVE KeysInOrder(_)
KeysInOrder(keys) ==
    IF keys = {} THEN <<>>
    ELSE LET k == CHOOSE x \in keys : \A y \in keys : x <= y
         IN <<k>> \o KeysInOrder(keys \ {k})

\* a test of age that also drops the entry whose age is the retention
ExpiredAtRetention(value, oneHourAgo) == value.timestamp <= oneHourAgo

\* value.timestamp < oneHourAgo
Expired(value, oneHourAgo) == value.timestamp < oneHourAgo

CacheSweep ==
    LET oneHourAgo == now - Retention
        old == {key \in DOMAIN confirmedPayments :
                  /\ confirmedPayments[key] # NoEntry
                  /\ Expired(confirmedPayments[key], oneHourAgo)}
    IN /\ confirmedPayments' =
            [key \in DOMAIN confirmedPayments |->
               IF key \in old THEN NoEntry ELSE confirmedPayments[key]]
       /\ lastPoll' = Exchange("cache-sweep", NoId, 0, "none", NoId, KeysInOrder(old))
       /\ UNCHANGED <<tenancy, config, aside, intents, payments, orders, stock, now, everApproved>>

-----------------------------------------------------------------------------
(* The store middleware (storeAuth.js): the tenant of a request is the row
   of table stores named by the header x-store-id. *)

\* db("stores").where({ id: storeId }).first()
FirstStore(storeId) ==
    IF storeId \in StoreIds THEN stores[storeId] ELSE NoStore

Handled(via, header, db, http, next, store) ==
    [via |-> via, header |-> header, db |-> db, http |-> http, next |-> next,
     store |-> store]

\* a resolveStore that serves an unknown store with the default store
resolveStoreDefaulting(header, db) ==
    LET storeId == IF header \in {NoHeader, ""} THEN "loja-padrao" ELSE header
        store == IF FirstStore(storeId) # NoStore THEN FirstStore(storeId)
                 ELSE FirstStore("loja-padrao")
    IN /\ req' = IF db = "throw"
                  THEN Handled("resolveStore", header, db, 500, FALSE, NoStore)
                  ELSE IF store = NoStore
                  THEN Handled("resolveStore", header, db, 404, FALSE, NoStore)
                  ELSE Handled("resolveStore", header, db, 0, TRUE, store)
       /\ UNCHANGED <<stores, config, aside, intents, payments, confirmedPayments, orders,
                      stock, now, lastPoll, everApproved>>

\* resolveStore: an absent or empty header names loja-padrao
resolveStore(header, db) ==
    LET storeId == IF header \in {NoHeader, ""} THEN "loja-padrao" ELSE header
        store == FirstStore(storeId)
    IN /\ req' = IF db = "throw"
                  THEN Handled("resolveStore", header, db, 500, FALSE, NoStore)
                  ELSE IF store = NoStore
                  THEN Handled("resolveStore", header, db, 404, FALSE, NoStore)
                  ELSE Handled("resolveStore", header, db, 0, TRUE, store)
       /\ UNCHANGED <<stores, config, aside, intents, payments, confirmedPayments, orders,
                      stock, now, lastPoll, everApproved>>

\* resolveStoreOptional: the request goes on with the store of the header, or
\* with none
resolveStoreOptional(header, db) ==
    LET store == IF header \in {NoHeader, ""} \/ db = "throw" THEN NoStore
                 ELSE FirstStore(header)
    IN /\ req' = Handled("resolveStoreOptional", header, db, 0, TRUE, store)
       /\ UNCHANGED <<stores, config, aside, intents, payments, confirmedPayments, orders,
                      stock, now, lastPoll, everApproved>>

-----------------------------------------------------------------------------
(* The PIX creation of POST /api/pix/create and of
   paymentService.createPixPayment: one POST /v1/payments under an
   X-Idempotency-Key.  The gateway answers a key it has seen with the payment
   made under it and makes no other. *)

\* the ids the gateway gives to PIX payments, in the order it gives them
PixPayOrder == <<<<"pay", "1">>, <<"pay", "2">>, <<"pay", "3">>>>
PixPayIds == Range(PixPayOrder)

\* `pix_${orderId || Date.now()}_${Date.now()}`
IdempotencyKey(orderId) ==
    <<"pix_">> \o (IF orderId = NoId THEN <<ToString(now)>> ELSE orderId)
               \o <<ToString(now)>>

\* the payments the gateway made under a key
MadeUnder(key) == {e.payment : e \in {x \in idempotency : x.key = key}}

\* the id of the next payment of the gateway
NextPixPay ==
    LET free == {n \in 1..Len(PixPayOrder) : payments[PixPayOrder[n]] = NoPayment}
    IN PixPayOrder[CHOOSE n \in free : \A m \in free : n <= m]

\* a POST sent without its key: the gateway takes it for a new request
GatewayPostIgnoresKey(key, amount, orderId) ==
    /\ \E p \in PixPayIds : payments[p] = NoPayment
    /\ payments' = [payments EXCEPT ![NextPixPay] =
                       [status |-> "pending", amount |-> amount, ref |-> orderId]]
    /\ idempotency' = idempotency \cup {[key |-> key, payment |-> NextPixPay]}

\* POST /v1/payments reaches the gateway under the key
GatewayPost(key, amount, orderId) ==
    IF MadeUnder(key) # {}
    THEN UNCHANGED <<payments, idempotency>>
    ELSE /\ \E p \in PixPayIds : payments[p] = NoPayment
         /\ payments' = [payments EXCEPT ![NextPixPay] =
                            [status |-> "pending", amount |-> amount, ref |-> orderId]]
         /\ idempotency' = idempotency \cup {[key |-> key, payment |-> NextPixPay]}

\* the payment the response of the POST carries
PostedPayment(key) ==
    IF MadeUnder(key) # {} THEN CHOOSE p \in MadeUnder(key) : TRUE ELSE NextPixPay

\* POST /api/pix/create; a fetch that throws has reached the gateway or has
\* not
PixCreate(amount, orderId, out) ==
    LET key == IdempotencyKey(orderId)
    IN /\ IF ~MP_ACCESS_TOKEN
          THEN /\ lastPoll' = Exchange("pixCreate", NoId, 500, "none", NoId, <<>>)
               /\ UNCHANGED <<payments, idempotency>>
          ELSE IF out = "ok"
          THEN /\ GatewayPost(key, amount, orderId)
               /\ lastPoll' = Exchange("pixCreate", NoId, 200, "pending",
                                       PostedPayment(key), <<"POST payment">>)
          ELSE /\ lastPoll' = Exchange("pixCreate", NoId, 500, "none", NoId,
                                       <<"POST payment">>)
               /\ IF out = "throw"
                  THEN \/ GatewayPost(key, amount, orderId)
                       \/ UNCHANGED <<payments, idempotency>>
                  ELSE UNCHANGED <<payments, idempotency>>
       /\ UNCHANGED <<tenancy, config, placed, users, inflight, intents,
                      confirmedPayments, orders, stock, now, everApproved>>

-----------------------------------------------------------------------------
(* The kiosk with accounts (part_000): POST /api/orders inserts the order
   and appends it to the historico of its user inside one db.transaction;
   the database is SQLite over one connection, so transactions do not
   interleave. *)

\* the two tables a transaction of POST /api/orders works on
Tables(o, u) == [orders |-> o, users |-> u]

\* db.transaction that keeps the writes made before the callback rejected
TransactionKeepsWrites(before, work, rejected) == work

\* db.transaction: the writes of the callback are committed when it resolves
\* and rolled back when it rejects
Transaction(before, work, rejected) == IF rejected THEN before ELSE work

\* the statements of the callback, in order, up to the one that throws;
\* fail names the statement the database refuses, the insert is refused as
\* well when the primary key is taken
Callback(id, userId, items, fail) ==
    LET insertThrows == fail = "insert" \/ placed[id] # NoRow
        inserted == [placed EXCEPT ![id] =
                        [userId |-> userId, status |-> "active", items |-> items]]
        selectThrows == fail = "select"
        user == IF userId \in UserIds THEN users[userId] ELSE NoUser
        updateThrows == fail = "update"
        updated == [users EXCEPT ![userId].historico = Append(@, id)]
    IN IF insertThrows
       THEN [work |-> Tables(placed, users), rejected |-> TRUE,
             ran |-> <<"INSERT orders">>]
       ELSE IF selectThrows
       THEN [work |-> Tables(inserted, users), rejected |-> TRUE,
             ran |-> <<"INSERT orders", "SELECT users">>]
       ELSE IF ~user.exists
       THEN [work |-> Tables(inserted, users), rejected |-> FALSE,
             ran |-> <<"INSERT orders", "SELECT users">>]
       ELSE IF updateThrows
       THEN [work |-> Tables(inserted, users), rejected |-> TRUE,
             ran |-> <<"INSERT orders", "SELECT users", "UPDATE users">>]
       ELSE [work |-> Tables(inserted, updated), rejected |-> FALSE,
             ran |-> <<"INSERT orders", "SELECT users", "UPDATE users">>]

\* POST /api/orders of part_000
PlaceOrder(userId, items, fail) ==
    LET id == OrderIdAt(now)
        c == Callback(id, userId, items, fail)
        after == Transaction(Tables(placed, users), c.work, c.rejected)
    IN /\ IF userId = NoId
          THEN /\ lastPoll' = Exchange("orders", NoId, 400, "none", NoId, <<>>)
               /\ UNCHANGED <<placed, users>>
          ELSE /\ placed' = after.orders
               /\ users' = after.users
               /\ lastPoll' = IF c.rejected
                               THEN Exchange("orders", id, 500, "none", NoId, c.ran)
                               ELSE Exchange("orders", id, 201, "active", NoId, c.ran)
       /\ UNCHANGED <<tenancy, config, idempotency, inflight, intents, payments,
                      confirmedPayments, orders, stock, now, everApproved>>

\* POST /api/users: a row with an empty historico; the insert fails when the
\* id has a row
RegisterUser(u) ==
    /\ ~users[u].exists
    /\ users' = [users EXCEPT ![u] = NewUser]
    /\ UNCHANGED <<tenancy, config, idempotency, inflight, placed, intents, payments,
                   confirmedPayments, orders, stock, now, lastPoll, everApproved>>

\* DELETE /api/orders/:id of part_000
CompleteOrder(o) ==
    /\ placed[o] # NoRow
    /\ placed' = [placed EXCEPT ![o].status = "completed"]
    /\ UNCHANGED <<tenancy, config, idempotency, inflight, users, intents, payments,
                   confirmedPayments, orders, stock, now, lastPoll, everApproved>>

-----------------------------------------------------------------------------
(* POST /api/webhooks/mercadopago as the event loop runs it: the handler
   gives way at every await, so the steps of two requests interleave.  An
   order has one item, so the loop over the items has one round. *)

\* the payment a request notifies
HookPayment(h) == IF h = "hook1" THEN <<"pay", "1">> ELSE <<"pay", "2">>

\* the frame of a step of a webhook request
HookFrame ==
    UNCHANGED <<tenancy, config, idempotency, placed, users, intents, payments,
                orders, now, lastPoll, everApproved>>

\* the request arrives with action payment.updated: 200 is answered and the
\* payment is asked from the gateway
HookArrive(h) ==
    /\ inflight[h].pc = "none"
    /\ inflight' = [inflight EXCEPT ![h].pc = "fetch"]
    /\ UNCHANGED <<confirmedPayments, stock>>
    /\ HookFrame

\* the payment is answered: a confirmed one is recorded in the cache and its
\* order is asked from the store; any other ends the request
HookFetched(h) ==
    LET p == HookPayment(h)
        payment == payments[p]
        confirmed == payment.status \in {"approved", "authorized"}
    IN /\ inflight[h].pc = "fetch"
       /\ confirmedPayments' = IF confirmed THEN CacheSet(confirmedPayments, p, payment)
                                ELSE confirmedPayments
       /\ inflight' = [inflight EXCEPT
                          ![h].pc = IF confirmed /\ payment.ref # NoId
                                    THEN "order" ELSE "done",
                          ![h].payment = p]
       /\ UNCHANGED stock
       /\ HookFrame

\* the order is answered: its items are parsed and the product of the item
\* is asked from the store
HookOrdered(h) ==
    LET ref == payments[inflight[h].payment].ref
        found == ref \in DOMAIN orders /\ orders[ref] # NoOrder
    IN /\ inflight[h].pc = "order"
       /\ inflight' = [inflight EXCEPT
                          ![h].pc = IF found /\ orders[ref].items # <<>>
                                    THEN "product" ELSE "done",
                          ![h].items = IF found THEN orders[ref].items ELSE <<>>]
       /\ UNCHANGED <<confirmedPayments, stock>>
       /\ HookFrame

\* the product is answered: its stock is kept in the request
HookRead(h) ==
    LET item == Head(inflight[h].items)
    IN /\ inflight[h].pc = "product"
       /\ inflight' = [inflight EXCEPT
                          ![h].pc = IF stock[item.id] # NULL THEN "update" ELSE "done",
                          ![h].stock = stock[item.id]]
       /\ UNCHANGED <<confirmedPayments, stock>>
       /\ HookFrame

\* the update writes the stock computed from the stock that was read
HookWrite(h) ==
    LET item == Head(inflight[h].items)
        newStock == inflight[h].stock - item.quantity
    IN /\ inflight[h].pc = "update"
       /\ stock' = [stock EXCEPT ![item.id] = Max(0, newStock)]
       /\ inflight' = [inflight EXCEPT ![h].pc = "done"]
       /\ UNCHANGED confirmedPayments
       /\ HookFrame

-----------------------------------------------------------------------------
(* POST /api/payment/create of the value-search revision of server.js and of
   part_001: the queue of the device is cleaned, then the intent is
   created. *)

RECURSIVE PreCleanCalls(_, _)
\* the DELETEs of the cleanup: one for each listed intent, in order, until
\* one throws; the answer of a DELETE is not looked at
PreCleanCalls(events, del) ==
    IF events = <<>> THEN <<>>
    ELSE <<Call("DELETE", Head(events), del[Head(events)])>> \o
         (IF del[Head(events)] = "throw" THEN <<>>
          ELSE PreCleanCalls(Tail(events), del))

\* a creation with the cleanup in the same try block as the create request:
\* a thrown cleanup call goes to the catch of the handler
CreateCallsOneTry(list, del, post) ==
    LET clean == <<Call("LIST", NoId, list)>> \o
                 (IF list = "ok" THEN PreCleanCalls(Events(Queue), del) ELSE <<>>)
    IN IF \E n \in 1..Len(clean) : clean[n].answer = "throw"
       THEN clean
       ELSE clean \o <<Call("POST", NoId, post)>>

\* the gateway calls of the creation: the cleanup inside its own try/catch,
\* then the create request
CreateCalls(list, del, post) ==
    <<Call("LIST", NoId, list)>> \o
    (IF list = "ok" THEN PreCleanCalls(Events(Queue), del) ELSE <<>>) \o
    <<Call("POST", NoId, post)>>

\* POST /api/payment/create with the cleanup before the creation
CreateAfterCleanup(amount, orderId, list, del, post) ==
    /\ IF ~MP_ACCESS_TOKEN \/ ~MP_DEVICE_ID
       THEN /\ lastPoll' = Exchange("create-clean", NoId, 200, "pending",
                                    <<"mock_", "pay", "1">>, <<>>)
            /\ UNCHANGED intents
       ELSE LET calls == CreateCalls(list, del, post)
                cleaned == [i \in DOMAIN intents |->
                               IF i \in Removed(calls) THEN NoIntent ELSE intents[i]]
                free == {i \in DOMAIN intents : cleaned[i] = NoIntent}
                posted == \E n \in 1..Len(calls) : calls[n] = Call("POST", NoId, "ok")
            IN IF posted
               THEN \E i \in free :
                       /\ intents' = [cleaned EXCEPT ![i] =
                             [state |-> "OPEN", amount |-> RoundToCents(amount),
                              ref |-> orderId, payment |-> NoId]]
                       /\ lastPoll' = Exchange("create-clean", NoId, 200, "open", i, calls)
               ELSE /\ intents' = cleaned
                    /\ lastPoll' = Exchange("create-clean", NoId, 500, "none", NoId, calls)
    /\ UNCHANGED <<tenancy, config, aside, payments, confirmedPayments, orders, stock, now,
                   everApproved>>

-----------------------------------------------------------------------------
Gateway ==
    \/ \E i \in IntentIds : EnvTerminal(i)
    \/ \E i \in IntentIds, p \in PayIds : EnvPay(i, p)
    \/ \E i \in IntentIds : EnvCancel(i)
    \/ \E p \in PayIds : EnvPaymentUpdate(p)

Notifications ==
    \/ \E a \in {"payment.created", "payment.updated", "other"},
          p \in PayIds \cup {NoId}, out \in Outcomes, db \in {"ok", "throw"} :
             Webhook(a, p, out, db)
    \/ \E t \in {"payment", "merchant_order"}, p \in PayIds \cup {NoId},
          out \in Outcomes : Ipn(t, p, out)

(* server.js: payment creation, the status check and the notification
   receivers over the gateway *)
Next ==
    \/ Gateway
    \/ \E m \in {"pix", "card"}, a \in Amounts, o \in {OrderIdAt(0), NoId},
          out \in Outcomes : PaymentCreate(m, a, o, out)
    \/ Notifications
    \/ \E id \in PollIds : StatusHybrid(id)

Spec == Init /\ [][Next]_vars

(* server.js: the order store and the notification receivers over PIX
   payments *)
NextStore ==
    \/ \E p \in PayIds : EnvPaymentUpdate(p)
    \/ Tick
    \/ \E a \in Amounts, o \in OrderIds \cup {NoId}, out \in Outcomes :
          PaymentCreate("pix", a, o, out)
    \/ \E items \in ItemLists, pid \in PayIds : PostOrders(items, pid)
    \/ \E o \in OrderIds : DeleteOrder(o)
    \/ Notifications
    \/ \E id \in PayIds : StatusHybrid(id)

SpecStore == InitStore /\ [][NextStore]_vars

(* the multi-tenant payment controller over the gateway *)
NextController ==
    \/ Gateway
    \/ \E m \in {"pix", "card"}, a \in Amounts, o \in {OrderIdAt(0), NoId},
          out \in Outcomes : PaymentCreate(m, a, o, out)
    \/ \E id \in PollIds : StatusController(id)
    \/ \E a \in Amounts \cup {NoAmount}, out \in Outcomes : createPix(a, NoId, out)
    \/ \E a \in Amounts \cup {NoAmount}, out \in Outcomes : createCard(a, NoId, out)
    \/ \E id \in IntentIds \cup PayIds, put \in PutOutcomes : cancel(id, put)
    \/ \E patch \in Outcomes \cup {"400"} : configurePoint(patch)
    \/ \E out \in Outcomes : getPointStatus(out)
    \/ \E out \in Outcomes : clearQueue(out)

SpecController == Init /\ [][NextController]_vars

\* the device with two charge attempts in its queue
InitQueue ==
    /\ MP_ACCESS_TOKEN \in BOOLEAN
    /\ MP_DEVICE_ID \in BOOLEAN
    /\ intents = [i \in QueueIntentIds |-> NoIntent]
    /\ payments = [p \in PayIds |-> NoPayment]
    /\ confirmedPayments = [k \in CacheKeys |-> NoEntry]
    /\ orders = [o \in OrderIds |-> NoOrder]
    /\ stock = [p \in ProductIds |-> MaxStock]
    /\ now = 0
    /\ lastPoll = NoPoll
    /\ everApproved = {}
    /\ stores = NoStores
    /\ req = NoRequest
    /\ InitAside

(* server.js: the device queue under the cleanup, cancel and clear-queue *)
NextQueue ==
    \/ \E i \in QueueIntentIds : EnvTerminal(i)
    \/ \E i \in QueueIntentIds, p \in PayIds : EnvPay(i, p)
    \/ \E i \in QueueIntentIds : EnvCancel(i)
    \/ \E a \in Amounts, out \in Outcomes : PaymentCreate("card", a, NoId, out)
    \/ \E list \in Outcomes :
          \E del \in (IF list = "ok" THEN [Queue -> DeleteOutcomes] ELSE {Unasked}) :
             AutoCleanup(list, del)
    \/ \E id \in IntentIds, list \in Outcomes :
          IF MP_DEVICE_ID /\ list = "ok"
          THEN \E del \in [Queue -> DeleteOutcomes] :
                  \E retry \in [{i \in Queue : del[i] = "409"} -> DeleteOutcomes] :
                     Cancel(id, list, del, retry, "404")
          ELSE \E put \in PutOutcomes : Cancel(id, list, Unasked, Unasked, put)
    \/ \E list \in Outcomes :
          \E del \in (IF list = "ok" THEN [Queue -> DeleteOutcomes] ELSE {Unasked}) :
             ClearQueue(list, del)

SpecQueue == InitQueue /\ [][NextQueue]_vars

(* server.js: the confirmed-payments cache, filled by the notification
   receivers, read by the status check and emptied by the sweep *)
NextCache ==
    \/ \E p \in PayIds : EnvPaymentUpdate(p)
    \/ Clock
    \/ \E a \in Amounts, out \in Outcomes : PaymentCreate("pix", a, NoId, out)
    \/ Notifications
    \/ CacheSweep
    \/ \E id \in PayIds : StatusHybrid(id)

SpecCache == Init /\ [][NextCache]_vars

(* server.js: the stock of the products under the webhook, with orders of
   any quantity *)
NextStock ==
    \/ \E p \in PayIds : EnvPaymentUpdate(p)
    \/ Tick
    \/ \E a \in Amounts, o \in OrderIds, out \in Outcomes :
          PaymentCreate("pix", a, o, out)
    \/ \E items \in LargeItemLists, pid \in PayIds : PostOrders(items, pid)
    \/ Notifications

SpecStock == InitStore /\ [][NextStock]_vars

\* an intent of 10.00 is on the terminal, with or without the reference of
\* its order; the account has no payment yet
InitSearch ==
    /\ MP_ACCESS_TOKEN = TRUE
    /\ MP_DEVICE_ID = TRUE
    /\ \E ref \in {OrderIdAt(0), NoId} :
          intents = [i \in IntentIds |->
                       [state |-> "OPEN", amount |-> SearchCents, ref |-> ref,
                        payment |-> NoId]]
    /\ payments = [p \in SearchPayIds |-> NoPayment]
    /\ confirmedPayments = [k \in CacheKeys |-> NoEntry]
    /\ orders = [o \in OrderIds |-> NoOrder]
    /\ stock = [p \in ProductIds |-> MaxStock]
    /\ now = 0
    /\ lastPoll = NoPoll
    /\ everApproved = {}
    /\ stores = NoStores
    /\ req = NoRequest
    /\ InitAside

(* the status check of the hybrid and value-search revisions (server.js)
   and of the reference-check revision over the payments of the account *)
NextSearch ==
    \/ \E i \in IntentIds : EnvTerminal(i)
    \/ \E p \in SearchPayIds, a \in NearAmounts,
          st \in {"approved", "authorized", "pending"},
          ref \in {OrderIdAt(0), NoId} : EnvSale(p, a, st, ref)
    \/ \E id \in IntentIds : StatusHybrid(id)
    \/ \E id \in IntentIds : StatusValue(id)
    \/ \E id \in IntentIds : StatusReference(id)

SpecSearch == InitSearch /\ [][NextSearch]_vars

\* the stores table holds any rows; no request was handled yet
InitTenant ==
    /\ MP_ACCESS_TOKEN = TRUE
    /\ MP_DEVICE_ID = TRUE
    /\ intents = [i \in IntentIds |-> NoIntent]
    /\ payments = [p \in PayIds |-> NoPayment]
    /\ confirmedPayments = [k \in CacheKeys |-> NoEntry]
    /\ orders = [o \in OrderIds |-> NoOrder]
    /\ stock = [p \in ProductIds |-> MaxStock]
    /\ now = 0
    /\ lastPoll = NoPoll
    /\ everApproved = {}
    /\ stores \in {t \in [StoreIds -> {NoStore} \cup UNION {StoreRows(s) : s \in StoreIds}] :
                      \A s \in StoreIds : t[s] = NoStore \/ t[s] \in StoreRows(s)}
    /\ req = NoRequest
    /\ InitAside

(* storeAuth.js: the middlewares over the stores table *)
NextTenant ==
    \/ \E header \in Headers, db \in {"ok", "throw"} : resolveStore(header, db)
    \/ \E header \in Headers, db \in {"ok", "throw"} : resolveStoreOptional(header, db)

SpecTenant == InitTenant /\ [][NextTenant]_vars

\* the account has no payment yet
InitPix ==
    /\ MP_ACCESS_TOKEN \in BOOLEAN
    /\ MP_DEVICE_ID = TRUE
    /\ intents = [i \in IntentIds |-> NoIntent]
    /\ payments = [p \in PixPayIds |-> NoPayment]
    /\ confirmedPayments = [k \in CacheKeys |-> NoEntry]
    /\ orders = [o \in OrderIds |-> NoOrder]
    /\ stock = [p \in ProductIds |-> MaxStock]
    /\ now = 0
    /\ lastPoll = NoPoll
    /\ everApproved = {}
    /\ stores = NoStores
    /\ req = NoRequest
    /\ InitAside

(* server.js and paymentService: the PIX creation, retried over the time *)
NextPix ==
    \/ Tick
    \/ \E p \in PixPayIds : EnvPaymentUpdate(p)
    \/ \E a \in Amounts, o \in {OrderIdAt(0), NoId}, out \in Outcomes :
          PixCreate(a, o, out)

SpecPix == InitPix /\ [][NextPix]_vars

\* the kiosk with accounts: some users are registered, no order is placed
InitHistory ==
    /\ MP_ACCESS_TOKEN = TRUE
    /\ MP_DEVICE_ID = TRUE
    /\ intents = [i \in IntentIds |-> NoIntent]
    /\ payments = [p \in PayIds |-> NoPayment]
    /\ confirmedPayments = [k \in CacheKeys |-> NoEntry]
    /\ orders = [o \in OrderIds |-> NoOrder]
    /\ stock = [p \in ProductIds |-> MaxStock]
    /\ now = 0
    /\ lastPoll = NoPoll
    /\ everApproved = {}
    /\ stores = NoStores
    /\ req = NoRequest
    /\ idempotency = {}
    /\ placed = [o \in OrderIds |-> NoRow]
    /\ users \in [UserIds -> {NoUser, NewUser}]
    /\ inflight = [h \in Hooks |-> NoHook]

\* the failures of the statements of the transaction
Failures == {"none", "insert", "select", "update"}

(* part_000: orders placed and completed, users registered *)
NextHistory ==
    \/ Tick
    \/ \E u \in UserIds \cup {NoId}, items \in ItemLists, fail \in Failures :
          PlaceOrder(u, items, fail)
    \/ \E u \in UserIds : RegisterUser(u)
    \/ \E o \in OrderIds : CompleteOrder(o)

SpecHistory == InitHistory /\ [][NextHistory]_vars

\* two charges of 10.00 are open on the device; the account has no payment
\* yet
InitTwoCharges ==
    /\ MP_ACCESS_TOKEN = TRUE
    /\ MP_DEVICE_ID = TRUE
    /\ intents = [i \in QueueIntentIds |->
                    [state |-> "OPEN", amount |-> SearchCents, ref |-> NoId,
                     payment |-> NoId]]
    /\ payments = [p \in SearchPayIds |-> NoPayment]
    /\ confirmedPayments = [k \in CacheKeys |-> NoEntry]
    /\ orders = [o \in OrderIds |-> NoOrder]
    /\ stock = [p \in ProductIds |-> MaxStock]
    /\ now = 0
    /\ lastPoll = NoPoll
    /\ everApproved = {}
    /\ stores = NoStores
    /\ req = NoRequest
    /\ InitAside

(* server.js, value-search revision: two charges of the same amount polled
   over the payments of the account *)
NextTwoCharges ==
    \/ \E i \in QueueIntentIds : EnvTerminal(i)
    \/ \E p \in SearchPayIds, a \in NearAmounts, st \in {"approved", "pending"} :
          EnvSale(p, a, st, NoId)
    \/ \E p \in SearchPayIds : EnvPaymentUpdate(p)
    \/ \E id \in QueueIntentIds : StatusValue(id)

SpecTwoCharges == InitTwoCharges /\ [][NextTwoCharges]_vars

\* a charge of 25.00 is open on the terminal
InitSweep ==
    /\ MP_ACCESS_TOKEN = TRUE
    /\ MP_DEVICE_ID = TRUE
    /\ intents = [i \in IntentIds |->
                    [state |-> "OPEN", amount |-> 2500, ref |-> OrderIdAt(0),
                     payment |-> NoId]]
    /\ payments = [p \in PayIds |-> NoPayment]
    /\ confirmedPayments = [k \in CacheKeys |-> NoEntry]
    /\ orders = [o \in OrderIds |-> NoOrder]
    /\ stock = [p \in ProductIds |-> MaxStock]
    /\ now = 0
    /\ lastPoll = NoPoll
    /\ everApproved = {}
    /\ stores = NoStores
    /\ req = NoRequest
    /\ InitAside

\* the timer of the cleanup fires
TimerCleanup ==
    \E list \in Outcomes :
       \E del \in (IF list = "ok" THEN [Queue -> DeleteOutcomes] ELSE {Unasked}) :
          AutoCleanup(list, del)

\* a poll of the client whose gateway calls are answered
AnsweredPoll ==
    \E id \in IntentIds : Respond("hybrid", id, HybridStatus(id, "ok", "ok"))

(* server.js: the client polls the status of its charge while the cardholder
   pays and the timer of the cleanup runs *)
NextSweep ==
    \/ \E i \in IntentIds : EnvTerminal(i)
    \/ \E i \in IntentIds, p \in PayIds : EnvPay(i, p)
    \/ TimerCleanup
    \/ \E id \in IntentIds : StatusHybrid(id)

\* the client keeps polling and the gateway keeps answering; the timer keeps
\* firing
SpecSweep ==
    InitSweep /\ [][NextSweep]_vars /\ WF_vars(AnsweredPoll) /\ WF_vars(TimerCleanup)

\* two orders of the same product are stored and their payments are
\* approved at the gateway; the notifications have not arrived
InitHooks ==
    /\ MP_ACCESS_TOKEN = TRUE
    /\ MP_DEVICE_ID = TRUE
    /\ intents = [i \in IntentIds |-> NoIntent]
    /\ \E a \in Amounts :
          payments = [p \in SearchPayIds |->
                        [status |-> "approved", amount |-> a,
                         ref |-> OrderIdAt(CreatedAt(p) - 1)]]
    /\ confirmedPayments = [k \in CacheKeys |-> NoEntry]
    /\ \E items \in [OrderIds -> LargeItemLists] :
          orders = [o \in OrderIds |->
                      [status |-> "active", paymentStatus |-> "paid",
                       paymentId |-> NoId, items |-> items[o], completedAt |-> NULL]]
    /\ stock \in [ProductIds -> {NULL, MaxStock}]
    /\ now = 0
    /\ lastPoll = NoPoll
    /\ everApproved = {}
    /\ stores = NoStores
    /\ req = NoRequest
    /\ InitAside

(* server.js: two webhook requests at a time *)
NextHooks ==
    \/ \E h \in Hooks : HookArrive(h)
    \/ \E h \in Hooks : HookFetched(h)
    \/ \E h \in Hooks : HookOrdered(h)
    \/ \E h \in Hooks : HookRead(h)
    \/ \E h \in Hooks : HookWrite(h)

SpecHooks == InitHooks /\ [][NextHooks]_vars

(* server.js, value-search revision: charges created one after the other on
   one device while the terminal works on them *)
NextCreate ==
    \/ \E i \in QueueIntentIds : EnvTerminal(i)
    \/ \E a \in Amounts, o \in {OrderIdAt(0), NoId}, list \in Outcomes,
          post \in Outcomes :
          \E del \in (IF list = "ok" THEN [Queue -> DeleteOutcomes] ELSE {Unasked}) :
             CreateAfterCleanup(a, o, list, del, post)

SpecCreate == InitQueue /\ [][NextCreate]_vars

(* server.js: the notification receivers over the payments of stored
   orders *)
NextNotify ==
    \/ \E p \in PayIds : EnvPaymentUpdate(p)
    \/ Tick
    \/ \E a \in Amounts, o \in {OrderIdAt(0), NoId}, out \in Outcomes :
          PaymentCreate("pix", a, o, out)
    \/ \E items \in ItemLists, pid \in PayIds : PostOrders(items, pid)
    \/ Notifications

SpecNotify == InitStore /\ [][NextNotify]_vars

-----------------------------------------------------------------------------
(* Properties *)

\* C1: an order that is paid stays paid in every step (status checks,
\* notifications, completion), so no order goes from pending to paid more
\* than once and none goes back from paid to pending
PaidAtMostOnce ==
    [][\A o \in OrderIds :
          orders[o].paymentStatus = "paid" => orders'[o].paymentStatus = "paid"]_vars

\* a paid order was completed after a notification confirmed the payment that
\* references it and a status check answered approved
PaidOrderNotifiedAndCompleted ==
    \E o \in OrderIds, k \in CacheKeys :
        /\ orders[o].paymentStatus = "paid"
        /\ orders[o].status = "completed"
        /\ confirmedPayments[k] # NoEntry
        /\ payments[confirmedPayments[k].paymentId].ref = o
        /\ lastPoll.status = "approved"

\* quantity of product prod in a list of items
RECURSIVE QuantityOf(_, _)
QuantityOf(items, prod) ==
    IF items = <<>> THEN 0
    ELSE (IF Head(items).id = prod THEN Head(items).quantity ELSE 0)
         + QuantityOf(Tail(items), prod)

\* quantity of product prod over the orders of the set os
RECURSIVE OrderedQuantity(_, _)
OrderedQuantity(os, prod) ==
    IF os = {} THEN 0
    ELSE LET o == CHOOSE x \in os : TRUE
         IN QuantityOf(orders[o].items, prod) + OrderedQuantity(os \ {o}, prod)

\* C2: each product's stock is reduced by an order's quantities at most once:
\* a finite stock never falls below the initial stock less the quantities of
\* the orders placed (clamped at zero), whatever notifications arrive
StockDecrementedOncePerOrder ==
    \A prod \in ProductIds :
        stock[prod] # NULL =>
            stock[prod] >= Max(0, MaxStock - OrderedQuantity(OrderIds, prod))

\* what the gateway holds for a payment id: a finished or processed intent, an
\* intent with a linked payment, an approved or authorized payment under the
\* id, or one matching the intent by reference or by amount
GatewayBacks(id) ==
    \/ /\ id \in IntentIds
       /\ intents[id] # NoIntent
       /\ \/ intents[id].state \in {"FINISHED", "PROCESSED"}
          \/ intents[id].payment # NoId
          \/ \E p \in PayIds :
                /\ payments[p].status \in {"approved", "authorized"}
                /\ \/ intents[id].ref # NoId /\ payments[p].ref = intents[id].ref
                   \/ AmountMatches(payments[p], CentsToAmount(intents[id].amount))
    \/ /\ id \in PayIds
       /\ payments[id].status \in {"approved", "authorized"}

\* C3: a status check answers approved only for an id that the gateway backs
\* with a finished intent, a linked payment or an approved/authorized payment
ApprovedOnlyWhenGatewayBacked ==
    [][\A id \in PollIds, o1 \in Outcomes, o2 \in Outcomes :
          (/\ Respond("hybrid", id, HybridStatus(id, o1, o2))
           /\ HybridStatus(id, o1, o2).status = "approved")
          => GatewayBacks(id)]_vars

\* C4: terminal intent inspection: when the intent is fetched, the check is
\* approved if the intent is FINISHED or PROCESSED or carries a payment id, and
\* pending if it is OPEN without one (no payment being found for it otherwise)
TerminalInspection ==
    [][\A id \in IntentIds, o1 \in Outcomes, o2 \in Outcomes :
          (/\ Respond("hybrid", id, HybridStatus(id, o1, o2))
           /\ IntentOk(id, o1))
          => /\ (intents[id].state \in {"FINISHED", "PROCESSED"}
                 \/ intents[id].payment # NoId)
                => HybridStatus(id, o1, o2).status = "approved"
             /\ (intents[id].state = "OPEN" /\ intents[id].payment = NoId)
                => HybridStatus(id, o1, o2).status = "pending"]_vars

\* C5: a status check that answers approved for a terminal intent issues the
\* DELETE of that intent in the same poll, and the answer does not depend on
\* the outcome of the DELETE
ApprovedDeletesIntent ==
    [][\A id \in IntentIds, o1 \in Outcomes, o2 \in Outcomes :
          (/\ Respond("hybrid", id, HybridStatus(id, o1, o2))
           /\ IntentOk(id, o1)
           /\ HybridStatus(id, o1, o2).status = "approved")
          => /\ "DELETE intent" \in Range(HybridStatus(id, o1, o2).calls)
             /\ \A o \in Outcomes : HybridStatus(id, o1, o).status = "approved"]_vars

\* the cache holds a confirmed payment under the amount key of the intent
RegistryHit(id) ==
    /\ id \in IntentIds
    /\ intents[id] # NoIntent
    /\ intents[id].amount \in CacheKeys
    /\ confirmedPayments[intents[id].amount].status \in {"approved", "authorized"}

GatewayReads == {"GET intent", "GET payment", "SEARCH reference", "SEARCH amount"}

\* C6: when a notification has put the payment in the cache before the first
\* poll (no status check recorded yet), that poll answers approved without any
\* gateway read and the intent is deleted all the same
FirstPollServedFromCache ==
    [][\A id \in IntentIds, o1 \in Outcomes, o2 \in Outcomes :
          (/\ Respond("hybrid", id, HybridStatus(id, o1, o2))
           /\ lastPoll.rev # "hybrid"
           /\ RegistryHit(id))
          => /\ HybridStatus(id, o1, o2).status = "approved"
             /\ Range(HybridStatus(id, o1, o2).calls) \cap GatewayReads = {}
             /\ "DELETE intent" \in Range(HybridStatus(id, o1, o2).calls)]_vars

\* rank of a strategy's gateway call in the priority order (the registry is 1)
StrategyRank(call) ==
    CASE call = "GET intent" -> 2
      [] call = "SEARCH reference" -> 3
      [] call = "SEARCH amount" -> 4
      [] OTHER -> 0

\* the strategy calls of a poll come in priority order
InPriorityOrder(calls) ==
    \A m \in 1..Len(calls), n \in 1..Len(calls) :
        (m < n /\ StrategyRank(calls[m]) > 0 /\ StrategyRank(calls[n]) > 0)
        => StrategyRank(calls[m]) < StrategyRank(calls[n])

\* C7: the strategies run in priority order and stop at the first success: a
\* registry hit is answered approved with no strategy call to the gateway, and
\* an intent that is approved on inspection is followed by no search
StrictPriorityOrder ==
    [][\A id \in PollIds, o1 \in Outcomes, o2 \in Outcomes :
          Respond("hybrid", id, HybridStatus(id, o1, o2))
          => LET r == HybridStatus(id, o1, o2)
             IN /\ InPriorityOrder(r.calls)
                /\ RegistryHit(id)
                   => /\ r.status = "approved"
                      /\ \A n \in 1..Len(r.calls) : StrategyRank(r.calls[n]) = 0
                /\ (/\ IntentOk(id, o1)
                    /\ (intents[id].state = "FINISHED" \/ intents[id].payment # NoId))
                   => \A n \in 1..Len(r.calls) : StrategyRank(r.calls[n]) <= 2]_vars

\* C8: a status check whose gateway call fails answers HTTP 200 with status
\* pending, never an HTTP error
FailureDegradesToPending ==
    [][\A id \in PollIds, o1 \in Outcomes :
          (/\ Respond("controller", id, checkStatus(id, o1))
           /\ MP_ACCESS_TOKEN
           /\ ~PaymentOk(id, o1))
          => /\ checkStatus(id, o1).http = 200
             /\ checkStatus(id, o1).status = "pending"]_vars

\* C9: the status of a status-check response is pending, approved or canceled
StatusInClientVocabulary ==
    (lastPoll.rev = "controller" /\ lastPoll.http = 200)
    => lastPoll.status \in {"pending", "approved", "canceled"}

\* C10: once a status check has answered approved for an id, every later
\* status check of that id answers approved (stated for the later checks
\* whose gateway calls are all answered)
ApprovedIsTerminal ==
    [][\A id \in PollIds :
          (/\ Respond("hybrid", id, HybridStatus(id, "ok", "ok"))
           /\ MP_ACCESS_TOKEN
           /\ id \in everApproved)
          => HybridStatus(id, "ok", "ok").status = "approved"]_vars

\* the DELETEs of intent i among the calls
Deletes(calls, i) ==
    {n \in 1..Len(calls) : calls[n].verb = "DELETE" /\ calls[n].id = i}

\* the step records the exchange of the operation rev
Records(rev) == lastPoll' # lastPoll /\ lastPoll'.rev = rev

CancelRetriesOnceOn409 ==
    [][Records("cancel")
       => \A i \in Queue :
             LET calls == lastPoll'.calls
                 ds == Deletes(calls, i)
                 first == CHOOSE n \in ds : \A m \in ds : n <= m
                 last == CHOOSE n \in ds : \A m \in ds : m <= n
             IN ds # {}
                => /\ Cardinality(ds) = IF calls[first].answer = "409" THEN 2 ELSE 1
                   /\ calls[last].answer \in {"204", "404"}
                      => lastPoll'.http = 200 /\ lastPoll'.status = "success"
                   /\ (Cardinality(ds) = 2 /\ calls[last].answer = "204")
                      => intents'[i] = NoIntent]_vars

\* a cancel that deleted an intent at the second DELETE and answered success
CancelSucceededOnRetry ==
    \E i \in QueueIntentIds :
        /\ lastPoll.rev = "cancel"
        /\ lastPoll.http = 200
        /\ lastPoll.status = "success"
        /\ Call("DELETE", i, "409") \in Range(lastPoll.calls)
        /\ Call("DELETE", i, "204") \in Range(lastPoll.calls)
        /\ intents[i] = NoIntent

\* C13: clear-queue, and the loop of cancel, once the list is answered, issue
\* a DELETE for every intent of the list whatever the answers of the other
\* DELETEs, and the operation answers
ClearQueueAttemptsEveryIntent ==
    [][(Records("clear-queue") \/ Records("cancel"))
       => /\ lastPoll'.http \in {200, 500}
          /\ (lastPoll'.calls # <<>> /\ lastPoll'.calls[1] = Call("LIST", NoId, "ok"))
             => /\ lastPoll'.http = 200
                /\ \A i \in Queue : Deletes(lastPoll'.calls, i) # {}]_vars

\* a clear-queue whose first DELETE failed and whose second removed its intent
ClearQueueWentOnAfterFailure ==
    \E i \in QueueIntentIds, j \in QueueIntentIds, a \in {"409", "throw"} :
        /\ lastPoll.rev = "clear-queue"
        /\ lastPoll.http = 200
        /\ lastPoll.calls = <<Call("LIST", NoId, "ok"), Call("DELETE", i, a),
                               Call("DELETE", j, "204")>>
        /\ intents[i] # NoIntent
        /\ intents[j] = NoIntent

\* the revs of the exchanges that create a card payment
CardCreates == {"create", "createCard"}

\* C14: a card payment creation that sends the create-intent request has
\* listed the intents of the terminal before it
CreateCleansQueueFirst ==
    (lastPoll.rev \in CardCreates /\ "POST intent" \in Range(lastPoll.calls))
    => lastPoll.calls[1] = "LIST intents"

\* C15: when the create-intent request fails, the card payment creation
\* answers HTTP 500 with no intent id and no intent exists that did not
\* before
CreateFailureAnswersError ==
    [][\A a \in Amounts, out \in {"err", "throw"} :
          (/\ MP_ACCESS_TOKEN
           /\ MP_DEVICE_ID
           /\ \/ createCard(a, NoId, out)
              \/ \E o \in {OrderIdAt(0), NoId} : PaymentCreate("card", a, o, out))
          => /\ lastPoll'.http = 500
             /\ lastPoll'.paymentId = NoId
             /\ lastPoll'.calls = <<"POST intent">>
             /\ intents' = intents]_vars

\* a card creation of the controller whose create-intent request failed
CreateCardFailedAtGateway ==
    /\ lastPoll.rev = "createCard"
    /\ lastPoll.http = 500
    /\ lastPoll.paymentId = NoId
    /\ lastPoll.calls = <<"POST intent">>

\* C16: with no access token every payment operation answers an error, calls
\* the gateway never and gives no mock payment
NoCredentialsNoPayment ==
    (~MP_ACCESS_TOKEN /\ lastPoll # NoPoll)
    => /\ lastPoll.http >= 400
       /\ lastPoll.calls = <<>>
       /\ ~StartsWith(lastPoll.paymentId, <<"mock_">>)

\* the operations of the controller that need the device
DeviceOperations == {"createCard", "configurePoint", "getPointStatus", "clearQueue"}

\* C17: with a token and no device, card create, point configure, point
\* status and clear-queue answer 400 with no gateway call; with a token and no
\* amount, card create and PIX create answer 400 with no gateway call
MissingInputAnswers400 ==
    [][/\ (/\ MP_ACCESS_TOKEN
           /\ ~MP_DEVICE_ID
           /\ Records(lastPoll'.rev)
           /\ lastPoll'.rev \in DeviceOperations)
          => /\ lastPoll'.http = 400
             /\ lastPoll'.calls = <<>>
             /\ intents' = intents
       /\ \A out \in Outcomes :
             (/\ MP_ACCESS_TOKEN
              /\ createCard(NoAmount, NoId, out) \/ createPix(NoAmount, NoId, out))
             => /\ lastPoll'.http = 400
                /\ lastPoll'.calls = <<>>
                /\ intents' = intents
                /\ payments' = payments]_vars

\* a card creation refused for the missing device of a store with a token
CardRefusedWithoutDevice ==
    /\ MP_ACCESS_TOKEN
    /\ ~MP_DEVICE_ID
    /\ lastPoll.rev = "createCard"
    /\ lastPoll.http = 400
    /\ lastPoll.calls = <<>>

\* C19: a notification of a confirmed payment, on the IPN route as on the
\* webhook route, records the payment in the cache and decrements the stock
\* of the items of the order it refers to
ConfirmedNotificationDecrementsStock ==
    [][\A p \in PayIds :
          (/\ payments[p].status \in {"approved", "authorized"}
           /\ payments[p].ref \in OrderIds
           /\ orders[payments[p].ref] # NoOrder
           /\ Ipn("payment", p, "ok") \/ Webhook("payment.updated", p, "ok", "ok"))
          => /\ confirmedPayments'[RoundToCents(payments[p].amount)].paymentId = p
             /\ stock' = DecrementStock(orders[payments[p].ref].items, stock)]_vars

\* the inputs of the receivers: the kind of the notification, the id it
\* carries, the outcome of the gateway and the outcome of the store
Kinds == {"payment.created", "payment.updated", "payment", "merchant_order", "other"}

\* the steps are one response of HTTP 200 followed by no other response
AnswersFirst(steps) ==
    /\ steps # <<>>
    /\ steps[1] = Step("response", "200")
    /\ \A n \in 2..Len(steps) : steps[n].kind # "response"

\* C18: whatever the notification and the outcomes of the gateway and of the
\* store, the webhook and the IPN receiver send HTTP 200 once, as their first
\* step, before the fetch of the payment and before any access to the store
ReceiversAnswerFirst ==
    \A k \in Kinds, p \in PayIds \cup {NoId}, out \in Outcomes, db \in {"ok", "throw"} :
        /\ AnswersFirst(WebhookSteps(k, p, out, db))
        /\ AnswersFirst(IpnSteps(k, p, out))

\* a webhook for a confirmed payment is answered, then the payment is fetched
\* and cached and the order read while the store fails
WebhookAnsweredBeforeStoreError ==
    \E p \in PayIds :
        /\ WebhookSteps("payment.updated", p, "ok", "throw")
              = <<Step("response", "200"), Step("fetch", "GET payment"),
                  Step("cache", "set"), Step("store", "SELECT order")>>
        /\ confirmedPayments[RoundToCents(payments[p].amount)].paymentId = p

\* C20: an entry of the cache disappears only in a step taken later than its
\* time plus the retention, and a sweep that runs later than that removes it;
\* at its time plus the retention, and before, every step keeps the key
\* filled
EvictionAtRetention ==
    [][\A key \in DOMAIN confirmedPayments :
          confirmedPayments[key] # NoEntry
          => /\ confirmedPayments'[key] = NoEntry
                => now > confirmedPayments[key].timestamp + Retention
             /\ (CacheSweep /\ now > confirmedPayments[key].timestamp + Retention)
                => confirmedPayments'[key] = NoEntry
             /\ (CacheSweep /\ now <= confirmedPayments[key].timestamp + Retention)
                => confirmedPayments'[key] = confirmedPayments[key]]_vars

\* a sweep removed an entry made at the start, one tick after the end of its
\* retention
SweepRemovedExpiredEntry ==
    /\ lastPoll.rev = "cache-sweep"
    /\ lastPoll.calls # <<>>
    /\ now = Retention + 1
    /\ \A key \in Range(lastPoll.calls) : confirmedPayments[key] = NoEntry

\* C21: recording a confirmed payment that the cache already holds, by the
\* IPN or by the webhook, overwrites the entry of its key: the key keeps one
\* entry with the same paymentId, amount and status, its time is the time of
\* the second recording, and no other key changes
RecordingTwiceOverwrites ==
    [][\A p \in PayIds :
          LET key == RoundToCents(payments[p].amount)
              entry == confirmedPayments[key]
          IN (/\ payments[p].status \in {"approved", "authorized"}
              /\ entry.paymentId = p
              /\ entry.status = payments[p].status
              /\ \/ Ipn("payment", p, "ok")
                 \/ \E a \in {"payment.created", "payment.updated"},
                       db \in {"ok", "throw"} : Webhook(a, p, "ok", db))
             => /\ confirmedPayments'[key] = [entry EXCEPT !.timestamp = now]
                /\ \A k \in DOMAIN confirmedPayments \ {key} :
                      confirmedPayments'[k] = confirmedPayments[k]]_vars

\* the webhook has recorded the payment of the only order twice: the stock of
\* its item went down twice, and the entry has the time of a recording made
\* after the clock moved
PaymentRecordedTwice ==
    \E p \in PayIds :
        /\ orders[OrderIdAt(0)] # NoOrder
        /\ \A o \in OrderIds \ {OrderIdAt(0)} : orders[o] = NoOrder
        /\ payments[p].ref = OrderIdAt(0)
        /\ orders[OrderIdAt(0)].items = <<[id |-> "prod1", quantity |-> 1]>>
        /\ stock["prod1"] = MaxStock - 2
        /\ confirmedPayments[RoundToCents(payments[p].amount)].paymentId = p
        /\ confirmedPayments[RoundToCents(payments[p].amount)].timestamp = 1

\* C22: a status check of an intent id whose intent lookup is answered not
\* found, and for which the payment lookup gives no approved payment, answers
\* pending and never canceled
PurgedIntentIsPending ==
    (/\ lastPoll.rev = "hybrid"
     /\ lastPoll.id \in IntentIds
     /\ lastPoll.calls = <<"GET intent", "GET payment">>)
    => /\ lastPoll.http = 200
       /\ lastPoll.status = "pending"

\* the intent was approved and deleted from the terminal by an earlier status
\* check; the next check finds it nowhere and answers pending
PolledAfterPurge ==
    \E i \in IntentIds :
        /\ i \in everApproved
        /\ intents[i] = NoIntent
        /\ lastPoll.rev = "hybrid"
        /\ lastPoll.id = i
        /\ lastPoll.calls = <<"GET intent", "GET payment">>
        /\ lastPoll.status = "pending"

\* the store id a request names to resolveStore
NamedStore(header) == IF header \in {NoHeader, ""} THEN "loja-padrao" ELSE header

\* C23: a request goes on from resolveStore only with the row of the store
\* its header names (loja-padrao for an absent or empty header) attached;
\* when the table has no such store it is answered 404, does not go on and has
\* no store attached; whatever the middleware, a store attached is the row of
\* the store the header names
RequestRunsAsItsOwnStore ==
    /\ req.via = "resolveStore"
       => LET storeId == NamedStore(req.header)
          IN /\ req.next
                => /\ storeId \in StoreIds
                   /\ stores[storeId] # NoStore
                   /\ req.store = stores[storeId]
                   /\ req.store.id = storeId
             /\ (req.db = "ok" /\ FirstStore(storeId) = NoStore)
                => req.http = 404 /\ ~req.next
             /\ ~req.next => req.store = NoStore
    /\ (req.via = "resolveStoreOptional" /\ req.store # NoStore)
       => /\ req.header \in StoreIds
          /\ req.store = stores[req.header]
          /\ req.store.id = req.header

\* a request for a store that is not in the table was answered 404 while the
\* default store has credentials
UnknownStoreRefused ==
    /\ req.via = "resolveStore"
    /\ req.header = "loja-a"
    /\ stores["loja-a"] = NoStore
    /\ stores["loja-padrao"].mp_access_token # NoId
    /\ req.http = 404
    /\ ~req.next
    /\ req.store = NoStore

\* C24: when the webhook of a confirmed payment decrements the stock for the
\* items of its order, a product of finite stock s ordered in quantity q gets
\* the stock s - q, or 0 when that is negative; a product of unlimited stock
\* keeps it; no other product changes
DecrementClampsAtZero ==
    [][\A p \in PayIds, a \in {"payment.created", "payment.updated"} :
          (/\ payments[p].status \in {"approved", "authorized"}
           /\ payments[p].ref \in OrderIds
           /\ orders[payments[p].ref] # NoOrder
           /\ Webhook(a, p, "ok", "ok"))
          => \A prod \in ProductIds :
                LET s == stock[prod]
                    q == QuantityOf(orders[payments[p].ref].items, prod)
                IN /\ s = NULL => stock'[prod] = NULL
                   /\ (s # NULL /\ s - q >= 0) => stock'[prod] = s - q
                   /\ (s # NULL /\ s - q < 0) => stock'[prod] = 0]_vars

\* the only order asks for more than the stock held, its payment was
\* notified, and the stock is 0
StockClampedByLargeOrder ==
    \E p \in PayIds :
        /\ orders[OrderIdAt(0)] # NoOrder
        /\ \A o \in OrderIds \ {OrderIdAt(0)} : orders[o] = NoOrder
        /\ QuantityOf(orders[OrderIdAt(0)].items, "prod1") = MaxStock + 1
        /\ payments[p].ref = OrderIdAt(0)
        /\ confirmedPayments[RoundToCents(payments[p].amount)].paymentId = p
        /\ stock["prod1"] = 0

\* C25: the value search takes a payment for the charge exactly when its
\* status is approved or authorized and its amount is less than 0.01 away
\* from the expected amount: a check answered by the search is approved only
\* if such a payment is among the results
ValueSearchMatchesWithinCent ==
    (/\ lastPoll.rev = "value"
     /\ lastPoll.id \in IntentIds
     /\ lastPoll.status = "approved"
     /\ "SEARCH amount" \in Range(lastPoll.calls))
    => \E p \in DOMAIN payments :
          /\ payments[p].status \in {"approved", "authorized"}
          /\ Abs(payments[p].amount - CentsToAmount(SearchCents)) < 10

\* C26: for an intent that carries a reference and has not finished, the
\* reference search answers approved exactly when some payment of the gateway
\* with that reference is approved or authorized
ReferenceSearchAcceptsConfirmed ==
    [][\A id \in IntentIds :
          (/\ Respond("reference", id, ReferenceStatus(id, "ok", "ok"))
           /\ MP_ACCESS_TOKEN
           /\ intents[id] # NoIntent
           /\ intents[id].ref # NoId
           /\ intents[id].state \notin {"FINISHED", "PROCESSED"}
           /\ intents[id].payment = NoId)
          => (ReferenceStatus(id, "ok", "ok").status = "approved"
              <=> \E p \in DOMAIN payments :
                     /\ payments[p].ref = intents[id].ref
                     /\ payments[p].status \in {"approved", "authorized"})]_vars

\* the payments that qualify for an expected amount
Qualifying(expectedAmount) ==
    {p \in DOMAIN payments :
        /\ payments[p].status \in {"approved", "authorized"}
        /\ BelowCent(payments[p].amount, expectedAmount)}

\* the approved payments of a reference
ApprovedWith(ref) ==
    {p \in DOMAIN payments : payments[p].ref = ref /\ payments[p].status = "approved"}

Mutating(calls) ==
    {c \in Range(calls) : c \notin {"GET intent", "GET payment",
                                     "SEARCH reference", "SEARCH amount"}}

\* a status check of the hybrid or of the reference-check revision has
\* answered
StatusAnswered == Records("hybrid") \/ Records("reference")

CancelDeletesOnlyItsIntent ==
    [][Records("cancel")
       => \A i \in QueueIntentIds :
             i # lastPoll'.id
             => /\ Deletes(lastPoll'.calls, i) = {}
                /\ intents'[i] = intents[i]]_vars

\* the intents put on the terminal by a step
NewIntents == {i \in DOMAIN intents : intents[i] = NoIntent /\ intents'[i] # NoIntent}

\* C30: the intent created for a card charge carries the amount in integer
\* minor units, round(amount * 100), and the order id as its external
\* reference, by the route of server.js and by the controller alike
CreateIntentCarriesMinorUnits ==
    [][\A a \in Amounts, o \in {OrderIdAt(0), NoId}, out \in Outcomes :
          /\ PaymentCreate("card", a, o, out)
                => \A i \in NewIntents :
                      /\ intents'[i].amount = RoundToCents(a)
                      /\ intents'[i].ref = o
          /\ createCard(a, o, out)
                => \A i \in NewIntents :
                      /\ intents'[i].amount = RoundToCents(a)
                      /\ intents'[i].ref = o]_vars

\* the payments a step adds to the gateway
NewPayments ==
    {p \in DOMAIN payments : payments[p] = NoPayment /\ payments'[p] # NoPayment}

OrderPlacedWithItsHistory ==
    [][\A u \in UserIds \cup {NoId}, items \in ItemLists, fail \in Failures :
          PlaceOrder(u, items, fail)
          => LET id == OrderIdAt(now)
             IN /\ \/ /\ lastPoll'.http = 201
                      /\ placed[id] = NoRow
                      /\ placed' = [placed EXCEPT ![id] =
                            [userId |-> u, status |-> "active", items |-> items]]
                      /\ users' = IF users[u].exists
                                  THEN [users EXCEPT ![u].historico = Append(@, id)]
                                  ELSE users
                   \/ /\ lastPoll'.http \in {400, 500}
                      /\ placed' = placed
                      /\ users' = users
                /\ \A x \in UserIds :
                      \A n \in 1..Len(users'[x].historico) :
                         placed'[users'[x].historico[n]].userId = x]_vars

\* the update of the historico was refused after the insert of the order:
\* the request answered 500 and the order is not stored
OrderRolledBackWithHistory ==
    /\ lastPoll.rev = "orders"
    /\ lastPoll.http = 500
    /\ lastPoll.calls = <<"INSERT orders", "SELECT users", "UPDATE users">>
    /\ placed[lastPoll.id] = NoRow
    /\ \E u \in UserIds : users[u].exists /\ users[u].historico = <<>>

\* C33: while the account holds a single payment, at most one of the two
\* charges of its amount has been reported approved
OnePaymentOneApproval ==
    Cardinality({p \in DOMAIN payments : payments[p] # NoPayment}) = 1
    => Cardinality(everApproved \cap QueueIntentIds) <= 1

\* C34: once the intent is FINISHED with an approved payment, some poll of
\* the client is answered approved
PaidIsEventuallyApproved ==
    (\E i \in IntentIds, p \in PayIds :
        intents[i].state = "FINISHED" /\ payments[p].status = "approved")
    ~> (\E i \in IntentIds : i \in everApproved)

\* the quantity of the product in the order of a request
Sold(h) == Head(orders[payments[HookPayment(h)].ref].items).quantity

\* C35: when the two requests have ended, the stock of the product is the
\* stock before them less the two quantities, and not below zero
NoLostStockUpdate ==
    (\A h \in Hooks : inflight[h].pc = "done") /\ stock["prod1"] # NULL
    => stock["prod1"] = Max(0, MaxStock - Sold("hook1") - Sold("hook2"))

\* the payment a notification fetches is confirmed
Confirmed(p, out) == FetchPayment(p, out).status \in {"approved", "authorized"}

\* C36: a webhook whose action is not payment.created or payment.updated,
\* or that has no payment id, an IPN whose topic is not payment or that has
\* no id, and a notification whose payment is not approved or authorized
\* (or cannot be fetched) change neither the cache nor a stock nor an order
UnconfirmedNotificationChangesNothing ==
    [][/\ \A a \in {"payment.created", "payment.updated", "other"},
             p \in PayIds \cup {NoId}, out \in Outcomes, db \in {"ok", "throw"} :
             (/\ Webhook(a, p, out, db)
              /\ \/ a = "other"
                 \/ p = NoId
                 \/ ~Confirmed(p, out))
             => /\ confirmedPayments' = confirmedPayments
                /\ stock' = stock
                /\ orders' = orders
       /\ \A t \in {"payment", "merchant_order"}, p \in PayIds \cup {NoId},
             out \in Outcomes :
             (/\ Ipn(t, p, out)
              /\ \/ t # "payment"
                 \/ p = NoId
                 \/ ~Confirmed(p, out))
             => /\ confirmedPayments' = confirmedPayments
                /\ stock' = stock
                /\ orders' = orders]_vars

\* the payment of a stored order is at the gateway and is pending or
\* cancelled: a notification of it finds the cache empty and the stock whole,
\* and leaves them so
UnconfirmedPaymentOfStoredOrder ==
    \E p \in PayIds :
        /\ payments[p].status \in {"pending", "cancelled"}
        /\ payments[p].ref \in OrderIds
        /\ orders[payments[p].ref] # NoOrder
        /\ orders[payments[p].ref].items # <<>>
        /\ confirmedPayments = [k \in CacheKeys |-> NoEntry]
        /\ stock = [q \in ProductIds |-> MaxStock]

\* the positions of the create request among the calls of an exchange
Posts(calls) == {n \in 1..Len(calls) : calls[n].verb = "POST"}

\* C37: with the credentials set, whatever the cleanup's list call and
\* DELETEs answer or throw, the creation sends the create request exactly
\* once, as its last call, and the response follows from its answer alone:
\* 200 open with the new intent when it is answered 2xx, 500 otherwise
CleanupNeverBlocksCreate ==
    [][(Records("create-clean") /\ MP_ACCESS_TOKEN /\ MP_DEVICE_ID)
       => LET calls == lastPoll'.calls
              post == calls[Len(calls)]
          IN /\ Posts(calls) = {Len(calls)}
             /\ calls[1].verb = "LIST"
             /\ post.answer = "ok"
                   => /\ lastPoll'.http = 200
                      /\ lastPoll'.status = "open"
                      /\ intents'[lastPoll'.paymentId].state = "OPEN"
             /\ post.answer # "ok"
                   => /\ lastPoll'.http = 500
                      /\ lastPoll'.paymentId = NoId]_vars

\* a DELETE of the cleanup threw and the creation answered with its intent
CreatedAfterCleanupThrew ==
    /\ lastPoll.rev = "create-clean"
    /\ lastPoll.http = 200
    /\ lastPoll.status = "open"
    /\ \E i \in QueueIntentIds : Call("DELETE", i, "throw") \in Range(lastPoll.calls)
    /\ intents[lastPoll.paymentId].state = "OPEN"

\* the states of a charge the terminal has not finished
InProgress == {"OPEN", "ON_TERMINAL", "PROCESSING"}

\* C38: a creation leaves on the device every intent of another charge that
\* is still OPEN, ON_TERMINAL or PROCESSING: the intent created by a first
\* request is still there, unchanged, when a second creation has completed
CreateKeepsChargesInProgress ==
    [][Records("create-clean")
       => \A i \in Queue : intents[i].state \in InProgress
                              => intents'[i] = intents[i]]_vars

====
